---- MODULE Spec2Model ----
(***************************************************************************)
(* A model of grafanalib/core.py: the attrs records that describe a        *)
(* Grafana dashboard, their to_json_data / parse_json_data projections,    *)
(* the row balancing of Row and the id assignment of Dashboard.            *)
(*                                                                         *)
(* Python values are embedded as tagged records, so that any two values    *)
(* can be compared the way Python's == compares them:                      *)
(*   None          [none |-> TRUE]                                         *)
(*   True / False  [bool |-> b]                                            *)
(*   an int        [int |-> n]                                             *)
(*   a float       [float |-> the characters of its repr]                  *)
(*   a str         [str |-> "opaque text"]  or  [text |-> <<characters>>]  *)
(*   a list        [list |-> <<values>>]                                   *)
(*   a dict        [dict |-> function from keys to values]                 *)
(*   a function    [fn |-> name, ...]                                      *)
(*   an attrs record of class C   [cls |-> "C", field |-> value, ...]      *)
(*   a reference to a heap cell   [ref |-> address]                        *)
(* A str is written as characters wherever one of the string grammars      *)
(* (Pixels, Percent, RGB, RGBA) reads or writes it; opaque text stands for *)
(* a string that matches none of these grammars.                           *)
(***************************************************************************)
EXTENDS Integers, Sequences, FiniteSets, TLC

VARIABLES
    heap,      \* the objects constructed so far: heap[a] is the record at address a
    pending,   \* references to the panels collected for the next Row(panels=...)
    rowRefs,   \* references to the rows collected for Dashboard(rows=...)
    rowArgs,   \* history: rowArgs[i] is the panel list that was passed to build rowRefs[i]
    dash,      \* reference to the Dashboard, or None before it is built
    result,    \* reference to the Dashboard returned by auto_panel_ids, or None
    orig,      \* codec: the object under test, or the class or function that is handed wire, or None
    json,      \* codec: orig.to_json_data(), or None
    wire,      \* codec: the fully encoded wire form of orig, or the data received, or None
    dec,       \* codec: the outcome of parse_json_data(wire), or of the call orig(wire), or None
    warned,    \* the categories of the warnings issued with warnings.warn so far
    assigned,  \* the attributes set on a record after its constructor returned: "Class.field"
    rewire     \* codec: the fully encoded wire form of the decoded object, or None

vars == <<heap, pending, rowRefs, rowArgs, dash, result, orig, json, wire, dec, warned, assigned, rewire>>

---------------------------------------------------------------------------
(* Python values *)

None == [none |-> TRUE]
B(b) == [bool |-> b]
I(n) == [int |-> n]
F(repr) == [float |-> repr]
S(s) == [str |-> s]
Tx(chars) == [text |-> chars]
L(seq) == [list |-> seq]
D(map) == [dict |-> map]
Tu(seq) == [tuple |-> seq]
Ref(a) == [ref |-> a]
\* no keyword arguments, the empty dict
NoArgs == [k \in {} |-> None]

IsNone(v) == DOMAIN v = {"none"}
IsBool(v) == DOMAIN v = {"bool"}
\* bool is a subclass of int: isinstance(True, int) holds
IsInt(v) == DOMAIN v = {"int"} \/ DOMAIN v = {"bool"}
IsFloat(v) == DOMAIN v = {"float"}
IsNumber(v) == IsInt(v) \/ IsFloat(v)
IsStr(v) == DOMAIN v = {"str"} \/ DOMAIN v = {"text"}
IsList(v) == DOMAIN v = {"list"}
IsTuple(v) == DOMAIN v = {"tuple"}
IsDict(v) == DOMAIN v = {"dict"}
IsRef(v) == DOMAIN v = {"ref"}
IsObj(v) == "cls" \in DOMAIN v
IsInstance(v, cls) == IsObj(v) /\ v.cls = cls

IntOf(v) == IF DOMAIN v = {"bool"} THEN (IF v.bool THEN 1 ELSE 0) ELSE v.int

\* Python truthiness: bool(v)
Truthy(v) ==
    CASE IsNone(v) -> FALSE
      [] IsBool(v) -> v.bool
      [] DOMAIN v = {"int"} -> v.int # 0
      [] DOMAIN v = {"str"} -> v.str # ""
      [] DOMAIN v = {"text"} -> v.text # <<>>
      [] IsList(v) -> v.list # <<>>
      [] IsTuple(v) -> v.tuple # <<>>
      [] IsDict(v) -> DOMAIN v.dict # {}
      [] OTHER -> TRUE

\* a or b
Or(a, b) == IF Truthy(a) THEN a ELSE b

\* The outcome of a call: a returned value or a raised exception.
Ok(v) == [ok |-> TRUE, val |-> v]
Raise(exc, arg) == [ok |-> FALSE, exc |-> exc, arg |-> arg]
\* An outcome may carry, under warn, the category of a warning the call issued.
Warned(out, category) == out @@ ("warn" :> category)
\* An outcome may carry, under set, the attribute the call set on a record
\* that had been constructed before.
Assigned(out, attribute) == out @@ ("set" :> attribute)
\* the warnings a call issued, the attributes it set, and its outcome without them
Warnings(out) == IF "warn" \in DOMAIN out THEN <<out.warn>> ELSE <<>>
Assignments(out) == IF "set" \in DOMAIN out THEN <<out.set>> ELSE <<>>
Outcome(out) == IF out.ok THEN Ok(out.val) ELSE Raise(out.exc, out.arg)

---------------------------------------------------------------------------
(* Bounds of the model *)

\* panel ids offered to the panel constructors are None, 0 and 1..MaxId
MaxId == 3
\* at most this many panels are constructed for one dashboard
MaxPanels == 3
\* at most this many rows are passed to Dashboard(rows=...)
MaxRows == 2
\* the strings handed to the string decoders have at most this many characters
MaxText == 4
\* the sequences handed over as a pair of Y axes have at most this many elements
MaxAxes == 3

---------------------------------------------------------------------------
(* attrs: the generated __init__ of an @attr.s class *)

\* attr.validators.instance_of(type), and the module's own validators
Validates(validator, v) ==
    CASE validator = "bool" -> IsBool(v)
      [] validator = "int" -> IsInt(v)
      [] validator = "float" -> IsFloat(v)
      [] validator = "str" -> IsStr(v)
      [] validator = "Number" -> IsNumber(v)
      [] validator = "is_valid_xaxis_mode" -> v \in {S("time"), S("series")}
      [] OTHER -> IsInstance(v, validator)

\* an argument binding that ignores the keyword arguments it does not know
attrs_args_lenient(required, defaults, kwargs) ==
    IF ~(required \subseteq DOMAIN kwargs)
    THEN Raise("TypeError", "missing required argument")
    ELSE Ok([k \in required \cup DOMAIN defaults |->
                IF k \in DOMAIN kwargs THEN kwargs[k] ELSE defaults[k]])

\* binding the arguments of cls(**kwargs): an unknown or a missing keyword
\* raises TypeError, a default fills every field that is not given
attrs_args(required, defaults, kwargs) ==
    IF ~(DOMAIN kwargs \subseteq (required \cup DOMAIN defaults))
    THEN Raise("TypeError", "unexpected keyword argument")
    ELSE IF ~(required \subseteq DOMAIN kwargs)
    THEN Raise("TypeError", "missing required argument")
    ELSE Ok([k \in required \cup DOMAIN defaults |->
                IF k \in DOMAIN kwargs THEN kwargs[k] ELSE defaults[k]])

\* the end of __init__: the validators run on the (converted) fields
attrs_validate(cls, validators, fields) ==
    LET self == [k \in {"cls"} \cup DOMAIN fields |-> IF k = "cls" THEN cls ELSE fields[k]]
        bad == {k \in DOMAIN validators : ~Validates(validators[k], fields[k])}
    IN IF bad = {} THEN Ok(self)
       ELSE IF \E k \in bad : validators[k] = "is_valid_xaxis_mode"
       THEN Raise("ValueError", "should be one of")
       ELSE Raise("TypeError", "must be an instance")

\* cls(**kwargs) of a class without converters
attrs_init(cls, required, defaults, validators, kwargs) ==
    LET args == attrs_args(required, defaults, kwargs)
    IN IF ~args.ok THEN args ELSE attrs_validate(cls, validators, args.val)


---------------------------------------------------------------------------
(* str.format of an int, int(str), and the regular expression pieces *)

Digit == <<"0", "1", "2", "3", "4", "5", "6", "7", "8", "9">>
IsDigit(c) == \E i \in 1..10 : Digit[i] = c
DigitValue(c) == (CHOOSE i \in 1..10 : Digit[i] = c) - 1

RECURSIVE FormatNat(_)
FormatNat(n) ==
    IF n < 10 THEN <<Digit[n + 1]>>
    ELSE Append(FormatNat(n \div 10), Digit[(n % 10) + 1])

\* '{}'.format(v) for an int or a bool
FormatInt(v) ==
    IF IsBool(v) THEN (IF v.bool THEN <<"T", "r", "u", "e">> ELSE <<"F", "a", "l", "s", "e">>)
    ELSE IF v.int < 0 THEN <<"-">> \o FormatNat(0 - v.int)
    ELSE FormatNat(v.int)

RECURSIVE ParseNat(_)
\* int(digits)
ParseNat(chars) ==
    IF chars = <<>> THEN 0
    ELSE ParseNat(SubSeq(chars, 1, Len(chars) - 1)) * 10 + DigitValue(chars[Len(chars)])

\* the characters of a str; opaque text is one unit that no grammar matches
Chars(v) ==
    IF DOMAIN v = {"text"} THEN v.text
    ELSE IF v.str = "" THEN <<>> ELSE <<v.str>>


\* number of leading digits of chars: how far \d* reaches
RECURSIVE DigitRun(_)
DigitRun(chars) ==
    IF chars # <<>> /\ IsDigit(chars[1]) THEN 1 + DigitRun(Tail(chars)) ELSE 0

\* '$' without re.MULTILINE matches at the end and before one final newline
AtEnd(chars) == chars = <<>> \/ chars = <<"\n">>

---------------------------------------------------------------------------
(* dicts, first-class functions, dicttransform and transform_dict *)

\* a function value: a classmethod or a module function, by name
Fn(name) == [fn |-> name]
\* the default transform of dicttransform: lambda x: x
Identity == [fn |-> "lambda x: x"]
\* lambda x: x['type']
GetType == [fn |-> "lambda x: x['type']"]
\* foreach(func): the closure inner, which maps func over a list
foreach(func) == [fn |-> "foreach.inner", func |-> func]

\* calling a function value; defined after the functions it dispatches to
RECURSIVE Call(_, _)

\* dict(data): a copy of a dict; '' and [] give {}; other str raise ValueError
\* (an element of length 1 where a pair is required); None and numbers are
\* not iterable
dict(data) ==
    IF IsDict(data) THEN Ok(data)
    ELSE IF IsStr(data) THEN
        (IF Chars(data) = <<>> THEN Ok(D(NoArgs))
         ELSE Raise("ValueError", "dictionary update sequence element #0 has length 1; 2 is required"))
    ELSE IF IsList(data) /\ data.list = <<>> THEN Ok(D(NoArgs))
    ELSE Raise("TypeError", "object is not iterable")

\* data[key] for a str key
GetItem(data, key) ==
    IF IsDict(data) THEN
        (IF key \in DOMAIN data.dict THEN Ok(data.dict[key]) ELSE Raise("KeyError", key))
    ELSE IF IsList(data) \/ IsTuple(data) \/ IsStr(data)
    THEN Raise("TypeError", "indices must be integers or slices")
    ELSE Raise("TypeError", "object is not subscriptable")

\* data[i] for an int i >= 0: a dict of str keys has no key i
GetIndex(data, i) ==
    IF IsDict(data) THEN Raise("KeyError", "index")
    ELSE IF IsList(data) \/ IsTuple(data) THEN
        LET seq == IF IsList(data) THEN data.list ELSE data.tuple
        IN IF i < Len(seq) THEN Ok(seq[i + 1]) ELSE Raise("IndexError", "index out of range")
    ELSE IF IsStr(data) THEN
        (IF i < Len(Chars(data)) THEN Ok(Tx(<<Chars(data)[i + 1]>>))
         ELSE Raise("IndexError", "string index out of range"))
    ELSE Raise("TypeError", "object is not subscriptable")

\* d with the key removed
Pop(map, key) == [k \in (DOMAIN map) \ {key} |-> map[k]]
\* d with d[key] = value
SetItem(map, key, value) == [k \in (DOMAIN map) \cup {key} |-> IF k = key THEN value ELSE map[k]]

\* dicttransform.__new__: new_key defaults to old_key
dicttransform(old_key, new_key, transform) ==
    [old_key |-> old_key,
     new_key |-> IF new_key = "" THEN old_key ELSE new_key,   \* "" stands for new_key=None
     transform |-> transform]

RECURSIVE transform_loop(_, _)
\* the for loop of transform_dict over the remaining key_transformations
transform_loop(new_data, key_transformations) ==
    IF key_transformations = <<>> THEN Ok(D(new_data))
    ELSE LET t == Head(key_transformations)
         IN IF t.old_key \in DOMAIN new_data
            THEN LET old_value == new_data[t.old_key]
                     r == Call(t.transform, old_value)
                 IN IF ~r.ok THEN r
                    ELSE transform_loop(SetItem(Pop(new_data, t.old_key), t.new_key, r.val),
                                        Tail(key_transformations))
            ELSE transform_loop(new_data, Tail(key_transformations))

\* transform_dict with every rule looking for its old key in data as it was given
RECURSIVE transform_each(_, _, _)
transform_each(data, new_data, key_transformations) ==
    IF key_transformations = <<>> THEN Ok(D(new_data))
    ELSE LET t == Head(key_transformations)
         IN IF t.old_key \in DOMAIN data
            THEN LET r == Call(t.transform, data[t.old_key])
                 IN IF ~r.ok THEN r
                    ELSE transform_each(data, SetItem(Pop(new_data, t.old_key), t.new_key, r.val),
                                        Tail(key_transformations))
            ELSE transform_each(data, new_data, Tail(key_transformations))

transform_dict_given(data, key_transformations) ==
    LET new_data == dict(data)
    IN IF ~new_data.ok THEN new_data
       ELSE transform_each(new_data.val.dict, new_data.val.dict, key_transformations)

transform_dict(data, key_transformations) ==
    LET new_data == dict(data)
    IN IF ~new_data.ok THEN new_data
       ELSE transform_loop(new_data.val.dict, key_transformations)

\* the body of foreach.inner: [func(arg) for arg in args], first exception wins
RECURSIVE foreach_inner(_, _)
foreach_inner(func, args) ==
    IF args = <<>> THEN Ok(L(<<>>))
    ELSE LET h == Call(func, Head(args))
         IN IF ~h.ok THEN h
            ELSE LET t == foreach_inner(func, Tail(args))
                 IN IF ~t.ok THEN t ELSE Ok(L(<<h.val>> \o t.val.list))

\* the characters chars starts with, as far as they equal prefix
StartsWith(chars, prefix) ==
    Len(chars) >= Len(prefix) /\ SubSeq(chars, 1, Len(prefix)) = prefix

Drop(chars, n) == SubSeq(chars, n + 1, Len(chars))

\* '{}'.format(v) for an int, a bool or a float (a float prints as its repr)
FormatNumber(v) == IF IsFloat(v) THEN v.float ELSE FormatInt(v)

\* the characters of str(v) for a str, None, an int, a bool or a float
Str(v) ==
    CASE IsStr(v) -> Chars(v)
      [] IsNone(v) -> <<"N", "o", "n", "e">>
      [] IsNumber(v) -> FormatNumber(v)

\* template.format(v) for a template that ends with its one '{}':
\* the text of the template followed by the characters of str(v)
Format(template, v) == Tx(<<template>> \o Str(v))

\* float(chars) for chars matched by \d*\.\d+ with an optional exponent: the
\* float is named by its repr, so a missing leading 0 is supplied and the
\* trailing zeros of the fraction (all but the first digit) are dropped.
RECURSIVE StripZeros(_)
StripZeros(chars) ==
    IF Len(chars) >= 2 /\ chars[Len(chars)] = "0" /\ chars[Len(chars) - 1] # "."
    THEN StripZeros(SubSeq(chars, 1, Len(chars) - 1))
    ELSE chars

ParseFloat(chars) ==
    LET whole == IF chars[1] = "." THEN <<"0">> \o chars ELSE chars
        hasExp == \E i \in 1..Len(whole) : whole[i] = "e"
    IN F(IF hasExp THEN whole ELSE StripZeros(whole))

---------------------------------------------------------------------------
(* class RGBA, class RGB *)

RGBA(kwargs) ==
    attrs_init("RGBA", {"r", "g", "b", "a"}, NoArgs,
        [r |-> "int", g |-> "int", b |-> "int", a |-> "float"], kwargs)

RGBA_to_json_data(self) ==
    Tx(<<"r", "g", "b", "a", "(">> \o FormatInt(self.r) \o <<",", " ">>
       \o FormatInt(self.g) \o <<",", " ">> \o FormatInt(self.b) \o <<",", " ">>
       \o FormatNumber(self.a) \o <<")">>)

\* one "(\d+), " group at the start of chars: [n |-> digits matched, rest |-> what follows]
IntComma(chars) ==
    LET n == DigitRun(chars)
    IN IF n >= 1 /\ StartsWith(Drop(chars, n), <<",", " ">>)
       THEN [n |-> n, rest |-> Drop(chars, n + 2)]
       ELSE [n |-> 0, rest |-> chars]

\* "(\d*(?:\.\d+)(?:e-\d\d)?)" at the start of chars: the number of characters matched, 0 for none
FloatRun(chars) ==
    LET n == DigitRun(chars)
        afterDot == Drop(chars, n + 1)
        m == DigitRun(afterDot)
        afterFrac == Drop(afterDot, m)
        exp == StartsWith(afterFrac, <<"e", "-">>) /\ DigitRun(Drop(afterFrac, 2)) >= 2
    IN IF Len(chars) > n /\ chars[n + 1] = "." /\ m >= 1
       THEN n + 1 + m + (IF exp THEN 4 ELSE 0)
       ELSE 0

\* REGEX = "^rgba\((\d+), (\d+), (\d+), (\d*(?:\.\d+)(?:e-\d\d)?)\)$":
\* the four groups, or <<>> when there is no match
RGBA_REGEX(chars) ==
    IF ~StartsWith(chars, <<"r", "g", "b", "a", "(">>) THEN <<>>
    ELSE LET c1 == Drop(chars, 5)
             g1 == IntComma(c1)
             g2 == IntComma(g1.rest)
             g3 == IntComma(g2.rest)
             n4 == FloatRun(g3.rest)
             tail == Drop(g3.rest, n4)
         IN IF g1.n = 0 \/ g2.n = 0 \/ g3.n = 0 \/ n4 = 0
               \/ ~(StartsWith(tail, <<")">>) /\ AtEnd(Drop(tail, 1)))
            THEN <<>>
            ELSE <<SubSeq(c1, 1, g1.n), SubSeq(g1.rest, 1, g2.n),
                   SubSeq(g2.rest, 1, g3.n), SubSeq(g3.rest, 1, n4)>>

RGBA_parse_json_data(data) ==
    IF ~IsStr(data) THEN Raise("TypeError", "expected string or bytes-like object")
    ELSE LET match == RGBA_REGEX(Chars(data))
         IN IF match # <<>>
            THEN RGBA([r |-> I(ParseNat(match[1])), g |-> I(ParseNat(match[2])),
                       b |-> I(ParseNat(match[3])), a |-> ParseFloat(match[4])])
            ELSE Raise("ParseJsonException", Format("Unable to parse RGBA: ", data))

RGB(kwargs) ==
    attrs_init("RGB", {"r", "g", "b"}, NoArgs,
        [r |-> "int", g |-> "int", b |-> "int"], kwargs)

RGB_to_json_data(self) ==
    Tx(<<"r", "g", "b", "(">> \o FormatInt(self.r) \o <<",", " ">>
       \o FormatInt(self.g) \o <<",", " ">> \o FormatInt(self.b) \o <<")">>)

\* REGEX = "^rgb\((\d+), (\d+), (\d+)\)$": the three groups, or <<>> when there is no match
RGB_REGEX(chars) ==
    IF ~StartsWith(chars, <<"r", "g", "b", "(">>) THEN <<>>
    ELSE LET c1 == Drop(chars, 4)
             g1 == IntComma(c1)
             g2 == IntComma(g1.rest)
             n3 == DigitRun(g2.rest)
             tail == Drop(g2.rest, n3)
         IN IF g1.n = 0 \/ g2.n = 0 \/ n3 = 0
               \/ ~(StartsWith(tail, <<")">>) /\ AtEnd(Drop(tail, 1)))
            THEN <<>>
            ELSE <<SubSeq(c1, 1, g1.n), SubSeq(g1.rest, 1, g2.n), SubSeq(g2.rest, 1, n3)>>

RGB_parse_json_data(data) ==
    IF ~IsStr(data) THEN Raise("TypeError", "expected string or bytes-like object")
    ELSE LET match == RGB_REGEX(Chars(data))
         IN IF match # <<>>
            THEN RGB([r |-> I(ParseNat(match[1])), g |-> I(ParseNat(match[2])),
                      b |-> I(ParseNat(match[3]))])
            ELSE Raise("ParseJsonException", Format("Unable to parse RGB: ", data))

---------------------------------------------------------------------------
(* class Pixels *)

Pixels(kwargs) ==
    attrs_init("Pixels", {"num"}, NoArgs, [num |-> "int"], kwargs)

Pixels_to_json_data(self) == Tx(FormatInt(self.num) \o <<"p", "x">>)

\* REGEX = "^(\d+)(?:px)?$": the digits of group 1, or <<>> when there is no match
Pixels_REGEX(chars) ==
    LET n == DigitRun(chars)
        rest == SubSeq(chars, n + 1, Len(chars))
        rest2 == IF Len(rest) >= 2 /\ SubSeq(rest, 1, 2) = <<"p", "x">>
                 THEN SubSeq(rest, 3, Len(rest)) ELSE rest
    IN IF n >= 1 /\ (AtEnd(rest2) \/ AtEnd(rest)) THEN SubSeq(chars, 1, n) ELSE <<>>

Pixels_parse_json_data(data) ==
    IF IsInt(data) THEN Pixels([num |-> data])
    ELSE IF ~IsStr(data) THEN Raise("TypeError", "expected string or bytes-like object")
    ELSE LET m == Pixels_REGEX(Chars(data))
         IN IF m # <<>> THEN Pixels([num |-> I(ParseNat(m))])
            ELSE IF Chars(data) = <<>> THEN Ok(None)
            ELSE Raise("ParseJsonException", Format("Unable to parse Pixels ", data))

---------------------------------------------------------------------------
(* class Percent *)

Percent(kwargs) ==
    attrs_init("Percent", {}, [num |-> I(100)], [num |-> "Number"], kwargs)

Percent_to_json_data(self) == Tx(FormatNumber(self.num) \o <<"%">>)

\* REGEX = "^(\d+)%$": the digits of group 1, or <<>> when there is no match
Percent_REGEX(chars) ==
    LET n == DigitRun(chars)
        rest == Drop(chars, n)
    IN IF n >= 1 /\ StartsWith(rest, <<"%">>) /\ AtEnd(Drop(rest, 1))
       THEN SubSeq(chars, 1, n) ELSE <<>>

Percent_parse_json_data(data) ==
    IF ~IsStr(data) THEN Raise("TypeError", "expected string or bytes-like object")
    ELSE LET match == Percent_REGEX(Chars(data))
         IN IF match # <<>> THEN Percent([num |-> I(ParseNat(match))])
            ELSE Raise("ParseJsonException", Format("Unable to parse Percent ", data))

---------------------------------------------------------------------------
(* module constants *)

GREY1 == RGBA([r |-> I(216), g |-> I(200), b |-> I(27), a |-> F(<<"0", ".", "2", "7">>)]).val
GREY2 == RGBA([r |-> I(234), g |-> I(112), b |-> I(112), a |-> F(<<"0", ".", "2", "2">>)]).val
BLUE_RGBA == RGBA([r |-> I(31), g |-> I(118), b |-> I(189), a |-> F(<<"0", ".", "1", "8">>)]).val
BLUE_RGB == RGB([r |-> I(31), g |-> I(120), b |-> I(193)]).val
GREEN == RGBA([r |-> I(50), g |-> I(172), b |-> I(45), a |-> F(<<"0", ".", "9", "7">>)]).val
ORANGE == RGBA([r |-> I(237), g |-> I(129), b |-> I(40), a |-> F(<<"0", ".", "8", "9">>)]).val
RED == RGBA([r |-> I(245), g |-> I(54), b |-> I(54), a |-> F(<<"0", ".", "9">>)]).val

CUMULATIVE == S("cumulative")
NULL_CONNECTED == S("connected")
FLOT == S("flot")

DASHBOARD_TYPE == S("dashboard")
GRAPH_TYPE == S("graph")
SINGLESTAT_TYPE == S("singlestat")
TEXT_TYPE == S("text")
TABLE_TYPE == S("table")

DEFAULT_REFRESH == S("10s")
DEFAULT_ROW_HEIGHT == Pixels([num |-> I(250)]).val
DEFAULT_LINE_WIDTH == I(2)
DEFAULT_POINT_RADIUS == I(5)
DEFAULT_RENDERER == FLOT
DEFAULT_STEP == I(10)
TOTAL_SPAN == 12

DARK_STYLE == S("dark")
UTC == S("utc")
SCHEMA_VERSION == I(12)
SHORT_FORMAT == S("short")

STATE_NO_DATA == S("no_data")
STATE_ALERTING == S("alerting")

EVAL_GT == S("gt")

RTYPE_AVG == S("avg")
CTYPE_QUERY == S("query")
OP_AND == S("and")
OP_OR == S("or")

TEXT_MODE_MARKDOWN == S("markdown")
DATASOURCE_TYPE == S("datasource")
CONSTANT_TYPE == S("constant")

---------------------------------------------------------------------------
(* class Mapping .. class YAxes *)

Mapping(kwargs) ==
    attrs_init("Mapping", {"name", "value"},
        NoArgs,
        [value |-> "int"],
        kwargs)

Mapping_to_json_data(self) ==
    D([name |-> self.name, value |-> self.value])

Mapping_parse_json_data(data) ==
    IF ~IsDict(data) THEN Raise("TypeError", "argument after ** must be a mapping")
    ELSE Mapping(data.dict)

VTYPE_AVG == S("avg")
VTYPE_DEFAULT == VTYPE_AVG

MAPPING_TYPE_VALUE_TO_TEXT == I(1)
MAPPING_TYPE_RANGE_TO_TEXT == I(2)
MAPPING_VALUE_TO_TEXT == Mapping([name |-> S("value to text"), value |-> MAPPING_TYPE_VALUE_TO_TEXT]).val
MAPPING_RANGE_TO_TEXT == Mapping([name |-> S("range to text"), value |-> MAPPING_TYPE_RANGE_TO_TEXT]).val

Grid(kwargs) ==
    attrs_init("Grid", {},
        [threshold1 |-> None, threshold1Color |-> GREY1, threshold2 |-> None,
         threshold2Color |-> GREY2, leftLogBase |-> None, rightLogBase |-> None,
         rightMin |-> None, rightMax |-> None, leftMin |-> None,
         leftMax |-> None],
        [threshold1Color |-> "RGBA", threshold2Color |-> "RGBA"],
        kwargs)

Grid_to_json_data(self) ==
    D([threshold1 |-> self.threshold1, threshold1Color |-> self.threshold1Color,
       threshold2 |-> self.threshold2, threshold2Color |-> self.threshold2Color,
       leftLogBase |-> self.leftLogBase, rightLogBase |-> self.rightLogBase,
       rightMin |-> self.rightMin, rightMax |-> self.rightMax,
       leftMin |-> self.leftMin, leftMax |-> self.leftMax])

Grid_parse_json_data(data) ==
    LET new_data == transform_dict(data, <<
            dicttransform("threshold1Color", "", Fn("RGBA.parse_json_data")),
            dicttransform("threshold2Color", "", Fn("RGBA.parse_json_data"))>>)
    IN IF ~new_data.ok THEN new_data ELSE Grid(new_data.val.dict)

Legend(kwargs) ==
    attrs_init("Legend", {},
        [avg |-> B(FALSE), current |-> B(FALSE), max |-> B(FALSE),
         min |-> B(FALSE), show |-> B(TRUE), total |-> B(FALSE),
         values |-> None, alignAsTable |-> B(FALSE), hideEmpty |-> B(FALSE),
         hideZero |-> B(FALSE), rightSide |-> B(FALSE), sideWidth |-> None,
         sort |-> None, sortDesc |-> None],
        [avg |-> "bool", current |-> "bool", max |-> "bool",
         min |-> "bool", show |-> "bool", total |-> "bool",
         alignAsTable |-> "bool", hideEmpty |-> "bool", hideZero |-> "bool",
         rightSide |-> "bool"],
        kwargs)

Legend_parse_json_data(data) ==
    IF ~IsDict(data) THEN Raise("TypeError", "argument after ** must be a mapping")
    ELSE Legend(data.dict)

\* a to_json_data of Legend that writes the values field as it is stored
Legend_to_json_data_stored(self) ==
    D([avg |-> self.avg, current |-> self.current, max |-> self.max,
       min |-> self.min, show |-> self.show, total |-> self.total,
       values |-> self.values, alignAsTable |-> self.alignAsTable,
       hideEmpty |-> self.hideEmpty, hideZero |-> self.hideZero,
       rightSide |-> self.rightSide, sideWidth |-> self.sideWidth,
       sort |-> self.sort, sortDesc |-> self.sortDesc])

Legend_to_json_data(self) ==
    LET values == IF IsNone(self.values)
                  THEN Or(Or(Or(self.avg, self.current), self.max), self.min)
                  ELSE self.values
    IN D([avg |-> self.avg, current |-> self.current, max |-> self.max,
          min |-> self.min, show |-> self.show, total |-> self.total,
          values |-> values, alignAsTable |-> self.alignAsTable,
          hideEmpty |-> self.hideEmpty, hideZero |-> self.hideZero,
          rightSide |-> self.rightSide, sideWidth |-> self.sideWidth,
          sort |-> self.sort, sortDesc |-> self.sortDesc])

Target(kwargs) ==
    attrs_init("Target", {"expr"},
        [legendFormat |-> S(""), intervalFactor |-> I(2), metric |-> S(""),
         refId |-> S(""), step |-> DEFAULT_STEP, hide |-> B(FALSE),
         format |-> None, calculatedInterval |-> None, datasourceErrors |-> None,
         errors |-> None, interval |-> None, target |-> None,
         alias |-> None, dimensions |-> None, metricName |-> None,
         namespace |-> None, period |-> None, region |-> None,
         statistics |-> None],
        NoArgs,
        kwargs)

Target_to_json_data(self) ==
    D([expr |-> self.expr, interval |-> self.interval,
       intervalFactor |-> self.intervalFactor, legendFormat |-> self.legendFormat,
       metric |-> self.metric, refId |-> self.refId,
       step |-> self.step, hide |-> self.hide,
       format |-> self.format, calculatedInterval |-> self.calculatedInterval,
       datasourceErrors |-> self.datasourceErrors, errors |-> self.errors,
       target |-> self.target, alias |-> self.alias,
       dimensions |-> self.dimensions, metricName |-> self.metricName,
       namespace |-> self.namespace, period |-> self.period,
       region |-> self.region, statistics |-> self.statistics])

Target_parse_json_data(data) ==
    IF ~IsDict(data) THEN Raise("TypeError", "argument after ** must be a mapping")
    ELSE Target(data.dict)

Tooltip(kwargs) ==
    attrs_init("Tooltip", {},
        [msResolution |-> B(TRUE), shared |-> B(TRUE), sort |-> I(0),
         valueType |-> CUMULATIVE],
        [msResolution |-> "bool", shared |-> "bool"],
        kwargs)

Tooltip_to_json_data(self) ==
    D([msResolution |-> self.msResolution, shared |-> self.shared,
       sort |-> self.sort, value_type |-> self.valueType])

Tooltip_parse_json_data(data) ==
    LET new_data == transform_dict(data, <<
            dicttransform("value_type", "valueType", Identity)>>)
    IN IF ~new_data.ok THEN new_data ELSE Tooltip(new_data.val.dict)

XAxis(kwargs) ==
    attrs_init("XAxis", {},
        [mode |-> S("time"), name |-> None, values |-> L(<<>>),
         show |-> B(TRUE), buckets |-> None],
        [mode |-> "is_valid_xaxis_mode", show |-> "bool"],
        kwargs)

XAxis_to_json_data(self) ==
    D([show |-> self.show])

XAxis_parse_json_data(data) ==
    IF ~IsDict(data) THEN Raise("TypeError", "argument after ** must be a mapping")
    ELSE XAxis(data.dict)

YAxis(kwargs) ==
    attrs_init("YAxis", {},
        [decimals |-> None, format |-> None, label |-> None,
         logBase |-> I(1), max |-> None, min |-> I(0),
         show |-> B(TRUE)],
        [show |-> "bool"],
        kwargs)

YAxis_to_json_data(self) ==
    D([decimals |-> self.decimals, format |-> self.format,
       label |-> self.label, logBase |-> self.logBase,
       max |-> self.max, min |-> self.min,
       show |-> self.show])

YAxis_parse_json_data(data) ==
    IF ~IsDict(data) THEN Raise("TypeError", "argument after ** must be a mapping")
    ELSE YAxis(data.dict)

YAxes(kwargs) ==
    attrs_init("YAxes", {},
        [left |-> YAxis([format |-> SHORT_FORMAT]).val, right |-> YAxis([format |-> SHORT_FORMAT]).val],
        [left |-> "YAxis", right |-> "YAxis"],
        kwargs)

YAxes_to_json_data(self) ==
    L(<<self.left, self.right>>)

YAxes_parse_json_data(data) ==
    LET d0 == GetIndex(data, 0)
        left == YAxis_parse_json_data(d0.val)
        d1 == GetIndex(data, 1)
        right == YAxis_parse_json_data(d1.val)
    IN IF ~d0.ok THEN d0
       ELSE IF ~left.ok THEN left
       ELSE IF ~d1.ok THEN d1
       ELSE IF ~right.ok THEN right
       ELSE YAxes([left |-> left.val, right |-> right.val])

\* a to_y_axes that takes the first two elements of a list or tuple of any length
to_y_axes_first_two(data) ==
    IF IsInstance(data, "YAxes") THEN Ok(data)
    ELSE IF ~(IsList(data) \/ IsTuple(data))
    THEN Raise("ValueError", "YAxes must be either YAxes or a list of two values")
    ELSE LET seq == IF IsList(data) THEN data.list ELSE data.tuple
         IN IF Len(seq) < 2
            THEN Raise("IndexError", "index out of range")
            ELSE Warned(YAxes([left |-> seq[1], right |-> seq[2]]), "DeprecationWarning")

\* the converter of Graph.yAxes: a YAxes passes, a list or tuple of two
\* becomes YAxes(left, right) with a DeprecationWarning
to_y_axes(data) ==
    IF IsInstance(data, "YAxes") THEN Ok(data)
    ELSE IF ~(IsList(data) \/ IsTuple(data))
    THEN Raise("ValueError", "YAxes must be either YAxes or a list of two values")
    ELSE LET seq == IF IsList(data) THEN data.list ELSE data.tuple
         IN IF Len(seq) # 2
            THEN Raise("ValueError", "Must specify exactly two YAxes")
            ELSE Warned(YAxes([left |-> seq[1], right |-> seq[2]]), "DeprecationWarning")

---------------------------------------------------------------------------
(* objects by reference: mem is the sequence of the objects allocated so
   far and Ref(a) is a reference to mem[a] *)

\* the object a value denotes: what a reference points at, or the value itself
Deref(mem, v) == IF IsRef(v) THEN mem[v.ref] ELSE v

\* a faulty assoc that sets the changes on inst itself
assoc_in_place(mem, inst, changes) ==
    LET old == Deref(mem, inst)
    IN [ok |-> TRUE, val |-> inst, mem |->
            [mem EXCEPT ![inst.ref] = [k \in DOMAIN old |->
                        IF k \in DOMAIN changes THEN changes[k] ELSE old[k]]]]

\* attr.assoc(inst, **changes): a shallow copy of inst with the changes set
\* on it, allocated as a new object; inst itself is not touched
assoc(mem, inst, changes) ==
    LET old == Deref(mem, inst)
    IN IF ~(DOMAIN changes \subseteq DOMAIN old)
       THEN Raise("AttrsAttributeNotFoundError", "is not an attrs attribute")
       ELSE [ok |-> TRUE, val |-> Ref(Len(mem) + 1), mem |->
                Append(mem, [k \in DOMAIN old |->
                                IF k \in DOMAIN changes THEN changes[k] ELSE old[k]])]

\* a faulty rounding: the floor of a / b
Floor(a, b) == a \div b

\* a / b rounded towards zero, for b > 0
Trunc(a, b) == IF a >= 0 THEN a \div b ELSE -((-a) \div b)

\* math.ceil(a / b) for integers a and b > 0
Ceil(a, b) == -((-a) \div b)

---------------------------------------------------------------------------
(* _balance_panels, class Row *)

\* a faulty sum that leaves the declared spans out
allotted_spans_zero(spans) == 0

\* sum(panel.span if panel.span else 0 for panel in panels), spans given
RECURSIVE allotted_spans(_)
allotted_spans(spans) ==
    IF spans = <<>> THEN 0
    ELSE (IF Truthy(Head(spans)) THEN IntOf(Head(spans)) ELSE 0) + allotted_spans(Tail(spans))

\* a faulty list comprehension that stops after the first panel it has resized
balance_loop_first(mem, panels, auto_span, i) ==
    IF i > Len(panels) THEN [ok |-> TRUE, val |-> L(panels), mem |-> mem]
    ELSE LET unset == {j \in i..Len(panels) : IsNone(Deref(mem, panels[j]).span)}
         IN IF unset = {} THEN [ok |-> TRUE, val |-> L(panels), mem |-> mem]
            ELSE LET j == CHOOSE n \in unset : \A o \in unset : n <= o
                     new == assoc(mem, panels[j], [span |-> I(auto_span)])
                 IN [ok |-> TRUE, val |-> L([panels EXCEPT ![j] = new.val]), mem |-> new.mem]

\* the list comprehension of _balance_panels from panel i on
RECURSIVE balance_loop(_, _, _, _)
balance_loop(mem, panels, auto_span, i) ==
    IF i > Len(panels) THEN [ok |-> TRUE, val |-> L(panels), mem |-> mem]
    ELSE IF IsNone(Deref(mem, panels[i]).span)
    THEN LET new == assoc(mem, panels[i], [span |-> I(auto_span)])
         IN balance_loop(new.mem, [panels EXCEPT ![i] = new.val], auto_span, i + 1)
    ELSE balance_loop(mem, panels, auto_span, i + 1)

\* _balance_panels(panels): panels is a list of references into mem and so
\* is the result; spans are None, bool or int
balance_panels(mem, panels) ==
    IF ~(IsList(panels) \/ IsTuple(panels))
    THEN Raise("TypeError", "object is not iterable")
    ELSE LET seq == IF IsList(panels) THEN panels.list ELSE panels.tuple
             has == [i \in 1..Len(seq) |-> "span" \in DOMAIN Deref(mem, seq[i])]
             spans == [i \in 1..Len(seq) |-> Deref(mem, seq[i]).span]
             no_span_set == {i \in 1..Len(seq) : IsNone(spans[i])}
             auto_span == Ceil(TOTAL_SPAN - allotted_spans(spans),
                               IF no_span_set = {} THEN 1 ELSE Cardinality(no_span_set))
         IN IF \E i \in 1..Len(seq) : ~has[i]
            THEN Raise("AttributeError", "object has no attribute 'span'")
            ELSE IF \E i \in 1..Len(seq) : Truthy(spans[i]) /\ ~IsInt(spans[i])
            THEN Raise("TypeError", "unsupported operand type(s) for +")
            ELSE balance_loop(mem, seq, auto_span, 1)

\* Row(**kwargs) with the panels given as references into mem: the converter
\* allocates the rebalanced panels in mem
Row_init(mem, kwargs) ==
    LET args == attrs_args({},
            [panels |-> L(<<>>), collapse |-> B(FALSE), editable |-> B(TRUE),
             height |-> DEFAULT_ROW_HEIGHT, showTitle |-> None, title |-> None,
             repeat |-> None, repeatIteration |-> None, repeatRowId |-> None,
             titleSize |-> S("h6")],
            kwargs)
        panels == balance_panels(mem, args.val.panels)
        self == attrs_validate("Row",
            [collapse |-> "bool", editable |-> "bool", height |-> "Pixels"],
            [args.val EXCEPT !.panels = panels.val])
    IN IF ~args.ok THEN args
       ELSE IF ~panels.ok THEN panels
       ELSE IF ~self.ok THEN self
       ELSE [ok |-> TRUE, val |-> self.val, mem |-> panels.mem]

\* Row(**kwargs) with the panels given by value
Row(kwargs) ==
    IF "panels" \in DOMAIN kwargs /\ IsList(kwargs.panels)
    THEN LET mem == kwargs.panels.list
             self == Row_init(mem, SetItem(kwargs, "panels", L([i \in 1..Len(mem) |-> Ref(i)])))
         IN IF ~self.ok THEN self
            ELSE Ok([self.val EXCEPT !.panels =
                        L([i \in 1..Len(mem) |-> self.mem[self.val.panels.list[i].ref]])])
    ELSE LET self == Row_init(<<>>, kwargs)
         IN IF ~self.ok THEN self ELSE Ok(self.val)

Row_to_json_data(self) ==
    LET title == IF ~IsNone(self.title) THEN self.title ELSE S("New row")
        showTitle == IF ~IsNone(self.showTitle) THEN self.showTitle
                     ELSE IF ~IsNone(self.title) THEN B(TRUE) ELSE B(FALSE)
    IN D([collapse |-> self.collapse, editable |-> self.editable,
          height |-> self.height, panels |-> self.panels,
          showTitle |-> showTitle, title |-> title,
          repeat |-> self.repeat, repeatIteration |-> self.repeatIteration,
          repeatRowId |-> self.repeatRowId, titleSize |-> self.titleSize])

Row_parse_json_data(data) ==
    LET new_data == transform_dict(data, <<
            dicttransform("panels", "", foreach(Fn("lambda pnl: parse_object(pnl, PANEL_TYPES)"))),
            dicttransform("height", "", Fn("Pixels.parse_json_data"))>>)
    IN IF ~new_data.ok THEN new_data ELSE Row(new_data.val.dict)

---------------------------------------------------------------------------
(* class Annotations .. class TimePicker *)

Annotations(kwargs) ==
    attrs_init("Annotations", {},
        [list |-> L(<<>>)],
        NoArgs,
        kwargs)

Annotations_to_json_data(self) ==
    D([list |-> self.list])

Annotations_parse_json_data(data) ==
    IF ~IsDict(data) THEN Raise("TypeError", "argument after ** must be a mapping")
    ELSE Annotations(data.dict)

DataSourceInput(kwargs) ==
    attrs_init("DataSourceInput", {"name", "label", "pluginId", "pluginName"},
        [description |-> S(""), type |-> DATASOURCE_TYPE],
        [description |-> "str"],
        kwargs)

DataSourceInput_to_json_data(self) ==
    D([description |-> self.description, label |-> self.label,
       name |-> self.name, pluginId |-> self.pluginId,
       pluginName |-> self.pluginName, type |-> DATASOURCE_TYPE])

DataSourceInput_parse_json_data(data) ==
    IF ~IsDict(data) THEN Raise("TypeError", "argument after ** must be a mapping")
    ELSE DataSourceInput(data.dict)

ConstantInput(kwargs) ==
    attrs_init("ConstantInput", {"name", "label", "value"},
        [description |-> S(""), type |-> CONSTANT_TYPE],
        [description |-> "str"],
        kwargs)

ConstantInput_to_json_data(self) ==
    D([description |-> self.description, label |-> self.label,
       name |-> self.name, type |-> CONSTANT_TYPE,
       value |-> self.value])

ConstantInput_parse_json_data(data) ==
    IF ~IsDict(data) THEN Raise("TypeError", "argument after ** must be a mapping")
    ELSE ConstantInput(data.dict)

DashboardLink(kwargs) ==
    attrs_init("DashboardLink", {},
        [dashboard |-> None, uri |-> None, keepTime |-> B(TRUE),
         title |-> None, type |-> DASHBOARD_TYPE, asDropdown |-> None,
         icon |-> None, includeVars |-> None, tags |-> L(<<>>),
         targetBlank |-> None, url |-> None],
        [keepTime |-> "bool"],
        kwargs)

DashboardLink_to_json_data(self) ==
    LET title == IF IsNone(self.title) THEN self.dashboard ELSE self.title
    IN D([dashUri |-> self.uri, dashboard |-> self.dashboard,
          keepTime |-> self.keepTime, title |-> title,
          type |-> self.type, url |-> self.uri,
          icon |-> self.icon, includeVars |-> self.includeVars,
          tags |-> self.tags, targetBlank |-> self.targetBlank,
          asDropdown |-> self.asDropdown])

DashboardLink_parse_json_data(data) ==
    LET new_data == transform_dict(data, <<dicttransform("dashUri", "uri", Identity)>>)
    IN IF ~new_data.ok THEN new_data
       ELSE DashboardLink(Pop(new_data.val.dict, "url"))

Template(kwargs) ==
    attrs_init("Template", {"default", "dataSource", "name", "query"},
        [label |-> None, allValue |-> None, includeAll |-> B(FALSE),
         multi |-> B(FALSE), regex |-> None, type |-> S("query"),
         hide |-> I(1), options |-> L(<<>>), refresh |-> I(1),
         sort |-> I(1), tagValuesQuery |-> None, tagsQuery |-> None],
        [includeAll |-> "bool", multi |-> "bool"],
        kwargs)

Template_to_json_data(self) ==
    D([allValue |-> self.allValue, current |-> D([text |-> self.default, value |-> self.default, tags |-> L(<<>>)]),
       datasource |-> self.dataSource, hide |-> self.hide,
       includeAll |-> self.includeAll, label |-> self.label,
       multi |-> self.multi, name |-> self.name,
       options |-> self.options, query |-> self.query,
       refresh |-> self.refresh, regex |-> self.regex,
       sort |-> self.sort, tagValuesQuery |-> self.tagValuesQuery,
       tagsQuery |-> self.tagsQuery, type |-> S("query")])

\* key in container, for a dict or a list (a str holds its own text only)
Contains(container, key) ==
    IF IsDict(container) THEN Ok(key \in DOMAIN container.dict)
    ELSE IF IsList(container) THEN Ok(\E i \in 1..Len(container.list) : container.list[i] = S(key))
    ELSE IF IsStr(container) THEN Ok(container = S(key))
    ELSE Raise("TypeError", "argument is not iterable")

Template_parse_json_data(data) ==
    LET new_data == transform_dict(data, <<dicttransform("datasource", "dataSource", Identity)>>)
        current == new_data.val.dict.current
        rest == Pop(new_data.val.dict, "current")
        has_text == Contains(current, "text")
        has_value == Contains(current, "value")
        key == IF has_text.val THEN "text" ELSE "value"
        default == GetItem(current, key)
    IN IF ~new_data.ok THEN new_data
       ELSE IF "current" \notin DOMAIN new_data.val.dict THEN Template(new_data.val.dict)
       ELSE IF ~has_text.ok THEN has_text
       ELSE IF ~has_text.val /\ ~has_value.val THEN Template(rest)
       ELSE IF ~default.ok THEN default
       ELSE Template(SetItem(rest, "default", default.val))

Templating(kwargs) ==
    attrs_init("Templating", {},
        [list |-> L(<<>>)],
        NoArgs,
        kwargs)

Templating_to_json_data(self) ==
    D([list |-> self.list])

Templating_parse_json_data(data) ==
    IF ~IsDict(data) THEN Raise("TypeError", "argument after ** must be a mapping")
    ELSE Templating(data.dict)

Time(kwargs) ==
    attrs_init("Time", {"start", "end"},
        NoArgs,
        NoArgs,
        kwargs)

Time_to_json_data(self) ==
    D([from |-> self.start, to |-> self.end])

Time_parse_json_data(data) ==
    LET new_data == transform_dict(data, <<
            dicttransform("from", "start", Identity),
            dicttransform("to", "end", Identity)>>)
    IN IF ~new_data.ok THEN new_data ELSE Time(new_data.val.dict)

DEFAULT_TIME == Time([start |-> S("now-1h"), end |-> S("now")]).val

TimePicker(kwargs) ==
    attrs_init("TimePicker", {"refreshIntervals", "timeOptions"},
        [collapse |-> B(FALSE), enable |-> None, notice |-> None,
         now |-> None, status |-> None, type |-> None],
        NoArgs,
        kwargs)

TimePicker_to_json_data(self) ==
    D([refresh_intervals |-> self.refreshIntervals, time_options |-> self.timeOptions,
       collapse |-> self.collapse, enable |-> self.enable,
       notice |-> self.notice, now |-> self.now,
       status |-> self.status])

TimePicker_parse_json_data(data) ==
    LET new_data == transform_dict(data, <<
            dicttransform("refresh_intervals", "refreshIntervals", Identity),
            dicttransform("time_options", "timeOptions", Identity)>>)
    IN IF ~new_data.ok THEN new_data ELSE TimePicker(new_data.val.dict)

DEFAULT_TIME_PICKER ==
    TimePicker([
        refreshIntervals |-> L(<<S("5s"), S("10s"), S("30s"), S("1m"), S("5m"),
                                 S("15m"), S("30m"), S("1h"), S("2h"), S("1d")>>),
        timeOptions |-> L(<<S("5m"), S("15m"), S("1h"), S("6h"), S("12h"),
                            S("24h"), S("2d"), S("7d"), S("30d")>>)]).val

---------------------------------------------------------------------------
(* class Evaluator .. class Alert *)

Evaluator(kwargs) ==
    attrs_init("Evaluator", {"type", "params"},
        NoArgs,
        NoArgs,
        kwargs)

Evaluator_to_json_data(self) ==
    D([type |-> self.type, params |-> self.params])

Evaluator_parse_json_data(data) ==
    IF ~IsDict(data) THEN Raise("TypeError", "argument after ** must be a mapping")
    ELSE Evaluator(data.dict)

GreaterThan(value) ==
    Evaluator([type |-> EVAL_GT, params |-> L(<<value>>)]).val

TimeRange(kwargs) ==
    attrs_init("TimeRange", {"from_time", "to_time"},
        NoArgs,
        NoArgs,
        kwargs)

TimeRange_to_json_data(self) ==
    L(<<self.from_time, self.to_time>>)

TimeRange_parse_json_data(data) ==
    LET d0 == GetIndex(data, 0)
        from_time == Time_parse_json_data(d0.val)
        d1 == GetIndex(data, 1)
        to_time == Time_parse_json_data(d1.val)
    IN IF ~d0.ok THEN d0
       ELSE IF ~from_time.ok THEN from_time
       ELSE IF ~d1.ok THEN d1
       ELSE IF ~to_time.ok THEN to_time
       ELSE TimeRange([from_time |-> from_time.val, to_time |-> to_time.val])

AlertCondition(kwargs) ==
    attrs_init("AlertCondition", {"target", "evaluator", "timeRange", "operator", "reducerType"},
        [type |-> CTYPE_QUERY],
        [target |-> "Target", evaluator |-> "Evaluator", timeRange |-> "TimeRange"],
        kwargs)

\* a faulty encoding that writes the time range before the refId
AlertCondition_to_json_data_swapped(self) ==
    LET queryParams == L(<<self.timeRange.from_time, self.timeRange.to_time,
                           self.target.refId>>)
    IN D([evaluator |-> self.evaluator,
          operator |-> D([type |-> self.operator]),
          query |-> D([model |-> self.target, params |-> queryParams]),
          reducer |-> D([params |-> L(<<>>), type |-> self.reducerType]),
          type |-> self.type])

AlertCondition_to_json_data(self) ==
    LET queryParams == L(<<self.target.refId, self.timeRange.from_time,
                           self.timeRange.to_time>>)
    IN D([evaluator |-> self.evaluator,
          operator |-> D([type |-> self.operator]),
          query |-> D([model |-> self.target, params |-> queryParams]),
          reducer |-> D([params |-> L(<<>>), type |-> self.reducerType]),
          type |-> self.type])

\* refId, *timeRange = params, for a list, a tuple or a str
Unpack(params) ==
    IF ~(IsList(params) \/ IsTuple(params) \/ IsStr(params))
    THEN Raise("TypeError", "cannot unpack non-iterable object")
    ELSE LET seq == IF IsList(params) THEN params.list
                    ELSE IF IsTuple(params) THEN params.tuple
                    ELSE [i \in 1..Len(Chars(params)) |-> Tx(<<Chars(params)[i]>>)]
         IN IF seq = <<>>
            THEN Raise("ValueError", "not enough values to unpack")
            ELSE Ok([refId |-> Head(seq), timeRange |-> L(Tail(seq))])

AlertCondition_parse_json_data(data) ==
    LET new_data == transform_dict(data, <<
            dicttransform("evaluator", "", Fn("Evaluator.parse_json_data")),
            dicttransform("operator", "", GetType),
            dicttransform("reducer", "reducerType", GetType)>>)
        query == new_data.val.dict.query
        rest == Pop(new_data.val.dict, "query")
        model == GetItem(query, "model")
        target == Target_parse_json_data(model.val)
        params == GetItem(query, "params")
        unpacked == Unpack(params.val)
        timeRange == TimeRange_parse_json_data(unpacked.val.timeRange)
    IN IF ~new_data.ok THEN new_data
       ELSE IF "query" \notin DOMAIN new_data.val.dict THEN AlertCondition(new_data.val.dict)
       ELSE IF ~model.ok THEN model
       ELSE IF ~target.ok THEN target
       ELSE IF ~params.ok THEN params
       ELSE IF ~unpacked.ok THEN unpacked
       ELSE Assigned(
            IF ~timeRange.ok THEN timeRange
            ELSE AlertCondition(SetItem(SetItem(rest,
                    "target", [target.val EXCEPT !.refId = unpacked.val.refId]),
                    "timeRange", timeRange.val)),
            "Target.refId")

Alert(kwargs) ==
    attrs_init("Alert", {"name", "message", "alertConditions"},
        [executionErrorState |-> STATE_ALERTING, frequency |-> S("60s"), handler |-> I(1),
         noDataState |-> STATE_NO_DATA, notifications |-> L(<<>>)],
        NoArgs,
        kwargs)

Alert_to_json_data(self) ==
    D([conditions |-> self.alertConditions, executionErrorState |-> self.executionErrorState,
       frequency |-> self.frequency, handler |-> self.handler,
       message |-> self.message, name |-> self.name,
       noDataState |-> self.noDataState, notifications |-> self.notifications])

Alert_parse_json_data(data) ==
    LET new_data == transform_dict(data, <<
            dicttransform("conditions", "alertConditions", Identity)>>)
    IN IF ~new_data.ok THEN new_data ELSE Alert(new_data.val.dict)

---------------------------------------------------------------------------
(* class Dashboard; its rows are references into mem when it is traversed *)

Dashboard(kwargs) ==
    attrs_init("Dashboard", {"title", "rows"},
        [description |-> None, annotations |-> Annotations(NoArgs).val, editable |-> B(TRUE),
         gnetId |-> None, hideControls |-> B(FALSE), id |-> None,
         inputs |-> L(<<>>), links |-> L(<<>>), refresh |-> DEFAULT_REFRESH,
         schemaVersion |-> SCHEMA_VERSION, sharedCrosshair |-> B(FALSE), style |-> DARK_STYLE,
         tags |-> L(<<>>), templating |-> Templating(NoArgs).val, time |-> DEFAULT_TIME,
         timePicker |-> DEFAULT_TIME_PICKER, timezone |-> UTC, version |-> I(0),
         graphTooltip |-> I(0)],
        [annotations |-> "Annotations", editable |-> "bool", hideControls |-> "bool",
         sharedCrosshair |-> "bool", templating |-> "Templating", time |-> "Time",
         timePicker |-> "TimePicker"],
        kwargs)

Dashboard_to_json_data(self) ==
    D([annotations |-> self.annotations, description |-> self.description,
       editable |-> self.editable, gnetId |-> self.gnetId,
       hideControls |-> self.hideControls, id |-> self.id,
       links |-> self.links, refresh |-> self.refresh,
       rows |-> self.rows, schemaVersion |-> self.schemaVersion,
       sharedCrosshair |-> self.sharedCrosshair, style |-> self.style,
       tags |-> self.tags, templating |-> self.templating,
       title |-> self.title, time |-> self.time,
       timepicker |-> self.timePicker, timezone |-> self.timezone,
       version |-> self.version, graphTooltip |-> self.graphTooltip]
      @@ ("__inputs" :> self.inputs))

Dashboard_parse_json_data(data) ==
    LET new_data == transform_dict(data, <<
            dicttransform("__inputs", "inputs", foreach(Fn("lambda input: parse_object(input, INPUT_TYPES)"))),
            dicttransform("annotations", "", Fn("Annotations.parse_json_data")),
            dicttransform("templating", "", Fn("Templating.parse_json_data")),
            dicttransform("timepicker", "timePicker", Fn("TimePicker.parse_json_data")),
            dicttransform("time", "", Fn("Time.parse_json_data")),
            dicttransform("rows", "", foreach(Fn("Row.parse_json_data"))),
            dicttransform("links", "", foreach(Fn("DashboardLink.parse_json_data")))>>)
    IN IF ~new_data.ok THEN new_data ELSE Dashboard(new_data.val.dict)

\* Row._iter_panels: the panels of the row, in order
Row_iter_panels(mem, self) == Deref(mem, self).panels.list

\* the generator Dashboard._iter_panels from the given rows on: row by row,
\* panel by panel
RECURSIVE iter_rows(_, _)
iter_rows(mem, rows) ==
    IF rows = <<>> THEN <<>>
    ELSE Row_iter_panels(mem, Head(rows)) \o iter_rows(mem, Tail(rows))

Dashboard_iter_panels(mem, self) == iter_rows(mem, Deref(mem, self).rows.list)

\* i in ids, by Python's ==: an int equals an int or a bool of the same value
InIds(i, ids) == \E v \in ids : IsInt(v) /\ IntOf(v) = i

\* a faulty generator that yields every positive integer, taken or not
auto_ids_unfiltered(ids, i) == i

\* the generator (i for i in itertools.count(1) if i not in ids) resumed
\* with the counter at i: the value it yields
RECURSIVE auto_ids(_, _)
auto_ids(ids, i) == IF ~InIds(i, ids) THEN i ELSE auto_ids(ids, i + 1)

\* a faulty set_id that gives every panel a generated id
set_id_always(st, ids, panel) ==
    LET id == auto_ids(ids, st.count + 1)
        new == assoc(st.mem, panel, [id |-> I(id)])
    IN [val |-> new.val, mem |-> new.mem, count |-> id]

\* a faulty set_id that gives the panel it copies no span
set_id_unspanned(st, ids, panel) ==
    IF Truthy(Deref(st.mem, panel).id)
    THEN [val |-> panel, mem |-> st.mem, count |-> st.count]
    ELSE LET id == auto_ids(ids, st.count + 1)
             new == assoc(st.mem, panel, [id |-> I(id), span |-> None])
         IN [val |-> new.val, mem |-> new.mem, count |-> id]

\* the closure set_id of auto_panel_ids; st.count is the last value the
\* generator auto_ids has yielded
set_id(st, ids, panel) ==
    IF Truthy(Deref(st.mem, panel).id)
    THEN [val |-> panel, mem |-> st.mem, count |-> st.count]
    ELSE LET id == auto_ids(ids, st.count + 1)
             new == assoc(st.mem, panel, [id |-> I(id)])
         IN [val |-> new.val, mem |-> new.mem, count |-> id]

\* f(panel) for the function value f
Apply(st, f, panel) ==
    CASE f.fn = "Dashboard.auto_panel_ids.set_id" -> set_id(st, f.ids, panel)

\* list(map(f, panels)) from panel i on
RECURSIVE map_panels(_, _, _, _)
map_panels(st, f, panels, i) ==
    IF i > Len(panels) THEN [val |-> L(panels), mem |-> st.mem, count |-> st.count]
    ELSE LET new == Apply(st, f, panels[i])
         IN map_panels([mem |-> new.mem, count |-> new.count], f,
                       [panels EXCEPT ![i] = new.val], i + 1)

Row_map_panels(st, self, f) ==
    LET panels == map_panels(st, f, Deref(st.mem, self).panels.list, 1)
        new == assoc(panels.mem, self, [panels |-> panels.val])
    IN [val |-> new.val, mem |-> new.mem, count |-> panels.count]

\* [r._map_panels(f) for r in rows] from row i on
RECURSIVE map_rows(_, _, _, _)
map_rows(st, f, rows, i) ==
    IF i > Len(rows) THEN [val |-> L(rows), mem |-> st.mem, count |-> st.count]
    ELSE LET new == Row_map_panels(st, rows[i], f)
         IN map_rows([mem |-> new.mem, count |-> new.count], f,
                     [rows EXCEPT ![i] = new.val], i + 1)

Dashboard_map_panels(st, self, f) ==
    LET rows == map_rows(st, f, Deref(st.mem, self).rows.list, 1)
        new == assoc(rows.mem, self, [rows |-> rows.val])
    IN [val |-> new.val, mem |-> new.mem, count |-> rows.count]

\* a faulty auto_panel_ids whose generator counts from 2
auto_panel_ids_from_two(mem, self) ==
    LET panels == Dashboard_iter_panels(mem, self)
        ids == {Deref(mem, panels[i]).id :
                    i \in {j \in 1..Len(panels) : Truthy(Deref(mem, panels[j]).id)}}
    IN Dashboard_map_panels([mem |-> mem, count |-> 1], self,
            [fn |-> "Dashboard.auto_panel_ids.set_id", ids |-> ids])

\* Dashboard.auto_panel_ids(self): the reference to the new dashboard and
\* the memory after the call
auto_panel_ids(mem, self) ==
    LET panels == Dashboard_iter_panels(mem, self)
        ids == {Deref(mem, panels[i]).id :
                    i \in {j \in 1..Len(panels) : Truthy(Deref(mem, panels[j]).id)}}
    IN Dashboard_map_panels([mem |-> mem, count |-> 0], self,
            [fn |-> "Dashboard.auto_panel_ids.set_id", ids |-> ids])

---------------------------------------------------------------------------
(* the panels: class Graph .. class Table *)

Graph(kwargs) ==
    LET args == attrs_args({"title", "dataSource", "targets"},
        [aliasColors |-> D(NoArgs), bars |-> B(FALSE), description |-> None,
         editable |-> B(TRUE), error |-> B(FALSE), fill |-> I(1),
         grid |-> Grid(NoArgs).val, id |-> None, isNew |-> B(TRUE),
         legend |-> Legend(NoArgs).val, lines |-> B(TRUE), lineWidth |-> DEFAULT_LINE_WIDTH,
         links |-> L(<<>>), nullPointMode |-> NULL_CONNECTED, percentage |-> B(FALSE),
         pointRadius |-> DEFAULT_POINT_RADIUS, points |-> B(FALSE), renderer |-> DEFAULT_RENDERER,
         seriesOverrides |-> L(<<>>), span |-> None, stack |-> B(FALSE),
         steppedLine |-> B(FALSE), timeFrom |-> None, timeShift |-> None,
         tooltip |-> Tooltip(NoArgs).val, transparent |-> B(FALSE), thresholds |-> S(""),
         xAxis |-> XAxis(NoArgs).val, yAxes |-> YAxes(NoArgs).val, alert |-> None,
         dashLength |-> I(10), dashes |-> B(FALSE), spaceLength |-> I(10),
         decimals |-> None, minSpan |-> None, repeat |-> None,
         scopedVars |-> None, repeatIteration |-> None, repeatPanelId |-> None,
         hideTimeOverride |-> None, x_axis |-> None, y_axis |-> None,
         y_formats |-> None, type |-> GRAPH_TYPE],
        kwargs)
        yAxes == to_y_axes(args.val.yAxes)
    IN IF ~args.ok THEN args
       ELSE IF ~yAxes.ok THEN yAxes
       ELSE LET graph == attrs_validate("Graph",
        [bars |-> "bool", editable |-> "bool", error |-> "bool",
         fill |-> "int", grid |-> "Grid", isNew |-> "bool",
         legend |-> "Legend", lines |-> "bool", percentage |-> "bool",
         points |-> "bool", stack |-> "bool", steppedLine |-> "bool",
         tooltip |-> "Tooltip", transparent |-> "bool", xAxis |-> "XAxis",
         yAxes |-> "YAxes"],
        [args.val EXCEPT !.yAxes = yAxes.val])
            IN IF Warnings(yAxes) = <<>> THEN graph ELSE Warned(graph, yAxes.warn)

\* a to_json_data of Graph that writes the alert key whether or not there is an alert
Graph_to_json_data_null_alert(self) ==
    LET graphObject ==
    [aliasColors |-> self.aliasColors, bars |-> self.bars,
       datasource |-> self.dataSource, description |-> self.description,
       editable |-> self.editable, error |-> self.error,
       fill |-> self.fill, grid |-> self.grid,
       id |-> self.id, isNew |-> self.isNew,
       legend |-> self.legend, lines |-> self.lines,
       linewidth |-> self.lineWidth, links |-> self.links,
       nullPointMode |-> self.nullPointMode, percentage |-> self.percentage,
       pointradius |-> self.pointRadius, points |-> self.points,
       renderer |-> self.renderer, seriesOverrides |-> self.seriesOverrides,
       span |-> self.span, stack |-> self.stack,
       steppedLine |-> self.steppedLine, targets |-> self.targets,
       timeFrom |-> self.timeFrom, timeShift |-> self.timeShift,
       title |-> self.title, tooltip |-> self.tooltip,
       transparent |-> self.transparent, thresholds |-> self.thresholds,
       type |-> GRAPH_TYPE, xaxis |-> self.xAxis,
       yaxes |-> self.yAxes, dashLength |-> self.dashLength,
       dashes |-> self.dashes, spaceLength |-> self.spaceLength,
       decimals |-> self.decimals, minSpan |-> self.minSpan,
       repeat |-> self.repeat, scopedVars |-> self.scopedVars,
       repeatIteration |-> self.repeatIteration, repeatPanelId |-> self.repeatPanelId,
       hideTimeOverride |-> self.hideTimeOverride, y_formats |-> self.y_formats]
      @@ ("x-axis" :> self.x_axis)
      @@ ("y-axis" :> self.y_axis)
    IN D(SetItem(graphObject, "alert", self.alert))

Graph_to_json_data(self) ==
    LET graphObject ==
    [aliasColors |-> self.aliasColors, bars |-> self.bars,
       datasource |-> self.dataSource, description |-> self.description,
       editable |-> self.editable, error |-> self.error,
       fill |-> self.fill, grid |-> self.grid,
       id |-> self.id, isNew |-> self.isNew,
       legend |-> self.legend, lines |-> self.lines,
       linewidth |-> self.lineWidth, links |-> self.links,
       nullPointMode |-> self.nullPointMode, percentage |-> self.percentage,
       pointradius |-> self.pointRadius, points |-> self.points,
       renderer |-> self.renderer, seriesOverrides |-> self.seriesOverrides,
       span |-> self.span, stack |-> self.stack,
       steppedLine |-> self.steppedLine, targets |-> self.targets,
       timeFrom |-> self.timeFrom, timeShift |-> self.timeShift,
       title |-> self.title, tooltip |-> self.tooltip,
       transparent |-> self.transparent, thresholds |-> self.thresholds,
       type |-> GRAPH_TYPE, xaxis |-> self.xAxis,
       yaxes |-> self.yAxes, dashLength |-> self.dashLength,
       dashes |-> self.dashes, spaceLength |-> self.spaceLength,
       decimals |-> self.decimals, minSpan |-> self.minSpan,
       repeat |-> self.repeat, scopedVars |-> self.scopedVars,
       repeatIteration |-> self.repeatIteration, repeatPanelId |-> self.repeatPanelId,
       hideTimeOverride |-> self.hideTimeOverride, y_formats |-> self.y_formats]
      @@ ("x-axis" :> self.x_axis)
      @@ ("y-axis" :> self.y_axis)
    IN IF Truthy(self.alert) THEN D(SetItem(graphObject, "alert", self.alert))
       ELSE D(graphObject)

Graph_parse_json_data(data) ==
    LET new_data == transform_dict(data, <<
            dicttransform("datasource", "dataSource", Identity),
            dicttransform("linewidth", "lineWidth", Identity),
            dicttransform("pointradius", "pointRadius", Identity),
            dicttransform("xaxis", "xAxis", Fn("XAxis.parse_json_data")),
            dicttransform("yaxes", "yAxes", Fn("YAxes.parse_json_data")),
            dicttransform("grid", "", Fn("Grid.parse_json_data")),
            dicttransform("legend", "", Fn("Legend.parse_json_data")),
            dicttransform("tooltip", "", Fn("Tooltip.parse_json_data")),
            dicttransform("x-axis", "x_axis", Identity),
            dicttransform("y-axis", "y_axis", Identity),
            dicttransform("alert", "", Fn("Alert.parse_json_data")),
            dicttransform("targets", "", foreach(Fn("Target.parse_json_data"))),
            dicttransform("links", "", foreach(Fn("DashboardLink.parse_json_data")))>>)
    IN IF ~new_data.ok THEN new_data ELSE Graph(new_data.val.dict)

SparkLine(kwargs) ==
    attrs_init("SparkLine", {},
        [fillColor |-> BLUE_RGBA, full |-> B(FALSE), lineColor |-> BLUE_RGB,
         show |-> B(FALSE)],
        [fillColor |-> "RGBA", full |-> "bool", lineColor |-> "RGB",
         show |-> "bool"],
        kwargs)

SparkLine_to_json_data(self) ==
    D([fillColor |-> self.fillColor, full |-> self.full,
       lineColor |-> self.lineColor, show |-> self.show])

SparkLine_parse_json_data(data) ==
    LET new_data == transform_dict(data, <<
            dicttransform("fillColor", "", Fn("RGBA.parse_json_data")),
            dicttransform("lineColor", "", Fn("RGB.parse_json_data"))>>)
    IN IF ~new_data.ok THEN new_data ELSE SparkLine(new_data.val.dict)

ValueMap(kwargs) ==
    attrs_init("ValueMap", {"op", "text", "value"},
        NoArgs,
        NoArgs,
        kwargs)

ValueMap_to_json_data(self) ==
    D([op |-> self.op, text |-> self.text,
       value |-> self.value])

ValueMap_parse_json_data(data) ==
    IF ~IsDict(data) THEN Raise("TypeError", "argument after ** must be a mapping")
    ELSE ValueMap(data.dict)

RangeMap(kwargs) ==
    attrs_init("RangeMap", {"start", "end", "text"},
        NoArgs,
        NoArgs,
        kwargs)

RangeMap_to_json_data(self) ==
    D([from |-> self.start, to |-> self.end,
       text |-> self.text])

RangeMap_parse_json_data(data) ==
    LET new_data == transform_dict(data, <<
            dicttransform("from", "start", Identity),
            dicttransform("to", "end", Identity)>>)
    IN IF ~new_data.ok THEN new_data ELSE RangeMap(new_data.val.dict)

Gauge(kwargs) ==
    attrs_init("Gauge", {},
        [minValue |-> I(0), maxValue |-> I(100), show |-> B(FALSE),
         thresholdLabels |-> B(FALSE), thresholdMarkers |-> B(TRUE)],
        [minValue |-> "int", maxValue |-> "int", show |-> "bool",
         thresholdLabels |-> "bool", thresholdMarkers |-> "bool"],
        kwargs)

Gauge_to_json_data(self) ==
    D([maxValue |-> self.maxValue, minValue |-> self.minValue,
       show |-> self.show, thresholdLabels |-> self.thresholdLabels,
       thresholdMarkers |-> self.thresholdMarkers])

Gauge_parse_json_data(data) ==
    IF ~IsDict(data) THEN Raise("TypeError", "argument after ** must be a mapping")
    ELSE Gauge(data.dict)

Text(kwargs) ==
    attrs_init("Text", {"content"},
        [editable |-> B(TRUE), error |-> B(FALSE), height |-> None,
         id |-> None, links |-> L(<<>>), mode |-> TEXT_MODE_MARKDOWN,
         span |-> None, title |-> S(""), transparent |-> B(FALSE),
         dataSource |-> None, style |-> None, isNew |-> None,
         type |-> TEXT_TYPE],
        [editable |-> "bool", error |-> "bool", transparent |-> "bool"],
        kwargs)

\* a to_json_data of Text that writes the type field of the record
Text_to_json_data_own_type(self) ==
    D([content |-> self.content, editable |-> self.editable,
       error |-> self.error, height |-> self.height,
       id |-> self.id, links |-> self.links,
       mode |-> self.mode, span |-> self.span,
       title |-> self.title, transparent |-> self.transparent,
       type |-> self.type, datasource |-> self.dataSource,
       style |-> self.style, isNew |-> self.isNew])

Text_to_json_data(self) ==
    D([content |-> self.content, editable |-> self.editable,
       error |-> self.error, height |-> self.height,
       id |-> self.id, links |-> self.links,
       mode |-> self.mode, span |-> self.span,
       title |-> self.title, transparent |-> self.transparent,
       type |-> TEXT_TYPE, datasource |-> self.dataSource,
       style |-> self.style, isNew |-> self.isNew])

Text_parse_json_data(data) ==
    LET new_data == transform_dict(data, <<
            dicttransform("datasource", "dataSource", Identity),
            dicttransform("links", "", foreach(Fn("DashboardLink.parse_json_data")))>>)
    IN IF ~new_data.ok THEN new_data ELSE Text(new_data.val.dict)

SingleStat(kwargs) ==
    attrs_init("SingleStat", {"dataSource", "targets", "title"},
        [cacheTimeout |-> None, colors |-> L(<<GREEN, ORANGE, RED>>), colorBackground |-> B(FALSE),
         colorValue |-> B(FALSE), description |-> None, decimals |-> None,
         editable |-> B(TRUE), format |-> S("none"), gauge |-> Gauge(NoArgs).val,
         height |-> None, hideTimeOverride |-> B(FALSE), id |-> None,
         interval |-> None, links |-> L(<<>>), mappingType |-> MAPPING_TYPE_VALUE_TO_TEXT,
         mappingTypes |-> L(<<MAPPING_VALUE_TO_TEXT, MAPPING_RANGE_TO_TEXT>>), maxDataPoints |-> I(100), minSpan |-> None,
         nullText |-> None, nullPointMode |-> S("connected"), postfix |-> S(""),
         postfixFontSize |-> S("50%"), prefix |-> S(""), prefixFontSize |-> S("50%"),
         rangeMaps |-> L(<<>>), repeat |-> None, span |-> I(6),
         sparkline |-> SparkLine(NoArgs).val, thresholds |-> S(""), transparent |-> B(FALSE),
         valueFontSize |-> S("80%"), valueName |-> VTYPE_DEFAULT, valueMaps |-> L(<<>>),
         tableColumn |-> S(""), error |-> None, timeFrom |-> None,
         timeShift |-> None, type |-> SINGLESTAT_TYPE],
        [colorBackground |-> "bool", colorValue |-> "bool", editable |-> "bool",
         gauge |-> "Gauge", hideTimeOverride |-> "bool", sparkline |-> "SparkLine",
         transparent |-> "bool"],
        kwargs)

SingleStat_to_json_data(self) ==
    D([cacheTimeout |-> self.cacheTimeout, colorBackground |-> self.colorBackground,
       colorValue |-> self.colorValue, colors |-> self.colors,
       datasource |-> self.dataSource, decimals |-> self.decimals,
       description |-> self.description, editable |-> self.editable,
       format |-> self.format, gauge |-> self.gauge,
       id |-> self.id, interval |-> self.interval,
       links |-> self.links, height |-> self.height,
       hideTimeOverride |-> self.hideTimeOverride, mappingType |-> self.mappingType,
       mappingTypes |-> self.mappingTypes, maxDataPoints |-> self.maxDataPoints,
       minSpan |-> self.minSpan, nullPointMode |-> self.nullPointMode,
       nullText |-> self.nullText, postfix |-> self.postfix,
       postfixFontSize |-> self.postfixFontSize, prefix |-> self.prefix,
       prefixFontSize |-> self.prefixFontSize, rangeMaps |-> self.rangeMaps,
       repeat |-> self.repeat, span |-> self.span,
       sparkline |-> self.sparkline, targets |-> self.targets,
       thresholds |-> self.thresholds, title |-> self.title,
       transparent |-> self.transparent, type |-> SINGLESTAT_TYPE,
       valueFontSize |-> self.valueFontSize, valueMaps |-> self.valueMaps,
       valueName |-> self.valueName, tableColumn |-> self.tableColumn,
       error |-> self.error, timeFrom |-> self.timeFrom,
       timeShift |-> self.timeShift])

SingleStat_parse_json_data(data) ==
    LET new_data == transform_dict(data, <<
            dicttransform("datasource", "dataSource", Identity),
            dicttransform("colors", "", foreach(Fn("RGBA.parse_json_data"))),
            dicttransform("targets", "", foreach(Fn("Target.parse_json_data"))),
            dicttransform("gauge", "", Fn("Gauge.parse_json_data")),
            dicttransform("sparkline", "", Fn("SparkLine.parse_json_data")),
            dicttransform("mappingTypes", "", foreach(Fn("Mapping.parse_json_data"))),
            dicttransform("links", "", foreach(Fn("DashboardLink.parse_json_data"))),
            dicttransform("height", "", Fn("Pixels.parse_json_data")),
            dicttransform("rangeMaps", "", foreach(Fn("RangeMap.parse_json_data"))),
            dicttransform("valueMaps", "", foreach(Fn("ValueMap.parse_json_data")))>>)
    IN IF ~new_data.ok THEN new_data ELSE SingleStat(new_data.val.dict)

Table(kwargs) ==
    attrs_init("Table", {},
        [columns |-> None, dataSource |-> None, editable |-> None,
         error |-> None, fontSize |-> None, height |-> None,
         hideTimeOverride |-> None, id |-> None, links |-> L(<<>>),
         pageSize |-> None, scroll |-> None, showHeader |-> None,
         sort |-> None, span |-> None, styles |-> None,
         targets |-> None, timeFrom |-> None, title |-> None,
         transform |-> None, transparent |-> None, filterNull |-> None,
         type |-> TABLE_TYPE],
        NoArgs,
        kwargs)

Table_to_json_data(self) ==
    D([columns |-> self.columns, datasource |-> self.dataSource,
       editable |-> self.editable, error |-> self.error,
       fontSize |-> self.fontSize, height |-> self.height,
       hideTimeOverride |-> self.hideTimeOverride, id |-> self.id,
       links |-> self.links, pageSize |-> self.pageSize,
       scroll |-> self.scroll, showHeader |-> self.showHeader,
       sort |-> self.sort, span |-> self.span,
       styles |-> self.styles, targets |-> self.targets,
       timeFrom |-> self.timeFrom, title |-> self.title,
       transform |-> self.transform, transparent |-> self.transparent,
       type |-> TABLE_TYPE, filterNull |-> self.filterNull])

Table_parse_json_data(data) ==
    LET new_data == transform_dict(data, <<
            dicttransform("datasource", "dataSource", Identity),
            dicttransform("targets", "", foreach(Fn("Target.parse_json_data"))),
            dicttransform("height", "", Fn("Pixels.parse_json_data")),
            dicttransform("links", "", foreach(Fn("DashboardLink.parse_json_data")))>>)
    IN IF ~new_data.ok THEN new_data ELSE Table(new_data.val.dict)

---------------------------------------------------------------------------
(* parse_object *)

\* the classes are named by their class name
PANEL_TYPES == [graph |-> "Graph", text |-> "Text", singlestat |-> "SingleStat", table |-> "Table"]

INPUT_TYPES == [datasource |-> "DataSourceInput", constant |-> "ConstantInput"]

\* parse_object(obj, mapping): every KeyError of the parse, not only that of
\* the lookup mapping[object_type], becomes a ParseJsonException
parse_object(o, mapping) ==
    IF ~IsDict(o) THEN Raise("AttributeError", "object has no attribute 'get'")
    ELSE LET object_type == IF "type" \in DOMAIN o.dict THEN o.dict.type ELSE None
         IN IF IsList(object_type) \/ IsDict(object_type)
            THEN Raise("TypeError", "unhashable type")
            ELSE IF ~(DOMAIN object_type = {"str"} /\ object_type.str \in DOMAIN mapping)
            THEN Raise("ParseJsonException", Format("Unknown panel type ", object_type))
            ELSE LET parsed == Call(Fn(mapping[object_type.str] \o ".parse_json_data"), o)
                 IN IF ~parsed.ok /\ parsed.exc = "KeyError"
                    THEN Raise("ParseJsonException", Format("Unknown panel type ", object_type))
                    ELSE parsed

---------------------------------------------------------------------------
(* calling a function value *)

Call(f, x) ==
    CASE f.fn = "lambda x: x" -> Ok(x)
      [] f.fn = "lambda x: x['type']" -> GetItem(x, "type")
      [] f.fn = "foreach.inner" ->
            IF IsList(x) THEN foreach_inner(f.func, x.list)
            ELSE Raise("TypeError", "object is not iterable")
      [] f.fn = "lambda pnl: parse_object(pnl, PANEL_TYPES)" -> parse_object(x, PANEL_TYPES)
      [] f.fn = "lambda input: parse_object(input, INPUT_TYPES)" -> parse_object(x, INPUT_TYPES)
      [] f.fn = "RGBA.parse_json_data" -> RGBA_parse_json_data(x)
      [] f.fn = "RGB.parse_json_data" -> RGB_parse_json_data(x)
      [] f.fn = "Pixels.parse_json_data" -> Pixels_parse_json_data(x)
      [] f.fn = "Percent.parse_json_data" -> Percent_parse_json_data(x)
      [] f.fn = "Mapping.parse_json_data" -> Mapping_parse_json_data(x)
      [] f.fn = "Grid.parse_json_data" -> Grid_parse_json_data(x)
      [] f.fn = "Legend.parse_json_data" -> Legend_parse_json_data(x)
      [] f.fn = "Target.parse_json_data" -> Target_parse_json_data(x)
      [] f.fn = "Tooltip.parse_json_data" -> Tooltip_parse_json_data(x)
      [] f.fn = "XAxis.parse_json_data" -> XAxis_parse_json_data(x)
      [] f.fn = "YAxis.parse_json_data" -> YAxis_parse_json_data(x)
      [] f.fn = "YAxes.parse_json_data" -> YAxes_parse_json_data(x)
      [] f.fn = "Row.parse_json_data" -> Row_parse_json_data(x)
      [] f.fn = "Annotations.parse_json_data" -> Annotations_parse_json_data(x)
      [] f.fn = "DataSourceInput.parse_json_data" -> DataSourceInput_parse_json_data(x)
      [] f.fn = "ConstantInput.parse_json_data" -> ConstantInput_parse_json_data(x)
      [] f.fn = "DashboardLink.parse_json_data" -> DashboardLink_parse_json_data(x)
      [] f.fn = "Template.parse_json_data" -> Template_parse_json_data(x)
      [] f.fn = "Templating.parse_json_data" -> Templating_parse_json_data(x)
      [] f.fn = "Time.parse_json_data" -> Time_parse_json_data(x)
      [] f.fn = "TimePicker.parse_json_data" -> TimePicker_parse_json_data(x)
      [] f.fn = "Evaluator.parse_json_data" -> Evaluator_parse_json_data(x)
      [] f.fn = "TimeRange.parse_json_data" -> TimeRange_parse_json_data(x)
      [] f.fn = "AlertCondition.parse_json_data" -> AlertCondition_parse_json_data(x)
      [] f.fn = "Alert.parse_json_data" -> Alert_parse_json_data(x)
      [] f.fn = "Dashboard.parse_json_data" -> Dashboard_parse_json_data(x)
      [] f.fn = "Graph.parse_json_data" -> Graph_parse_json_data(x)
      [] f.fn = "SparkLine.parse_json_data" -> SparkLine_parse_json_data(x)
      [] f.fn = "ValueMap.parse_json_data" -> ValueMap_parse_json_data(x)
      [] f.fn = "RangeMap.parse_json_data" -> RangeMap_parse_json_data(x)
      [] f.fn = "Gauge.parse_json_data" -> Gauge_parse_json_data(x)
      [] f.fn = "Text.parse_json_data" -> Text_parse_json_data(x)
      [] f.fn = "SingleStat.parse_json_data" -> SingleStat_parse_json_data(x)
      [] f.fn = "Table.parse_json_data" -> Table_parse_json_data(x)

\* obj.to_json_data() for an object of one of the classes
to_json_data(self) ==
    CASE self.cls = "RGBA" -> RGBA_to_json_data(self)
      [] self.cls = "RGB" -> RGB_to_json_data(self)
      [] self.cls = "Pixels" -> Pixels_to_json_data(self)
      [] self.cls = "Percent" -> Percent_to_json_data(self)
      [] self.cls = "Mapping" -> Mapping_to_json_data(self)
      [] self.cls = "Grid" -> Grid_to_json_data(self)
      [] self.cls = "Legend" -> Legend_to_json_data(self)
      [] self.cls = "Target" -> Target_to_json_data(self)
      [] self.cls = "Tooltip" -> Tooltip_to_json_data(self)
      [] self.cls = "XAxis" -> XAxis_to_json_data(self)
      [] self.cls = "YAxis" -> YAxis_to_json_data(self)
      [] self.cls = "YAxes" -> YAxes_to_json_data(self)
      [] self.cls = "Row" -> Row_to_json_data(self)
      [] self.cls = "Annotations" -> Annotations_to_json_data(self)
      [] self.cls = "DataSourceInput" -> DataSourceInput_to_json_data(self)
      [] self.cls = "ConstantInput" -> ConstantInput_to_json_data(self)
      [] self.cls = "DashboardLink" -> DashboardLink_to_json_data(self)
      [] self.cls = "Template" -> Template_to_json_data(self)
      [] self.cls = "Templating" -> Templating_to_json_data(self)
      [] self.cls = "Time" -> Time_to_json_data(self)
      [] self.cls = "TimePicker" -> TimePicker_to_json_data(self)
      [] self.cls = "Evaluator" -> Evaluator_to_json_data(self)
      [] self.cls = "TimeRange" -> TimeRange_to_json_data(self)
      [] self.cls = "AlertCondition" -> AlertCondition_to_json_data(self)
      [] self.cls = "Alert" -> Alert_to_json_data(self)
      [] self.cls = "Dashboard" -> Dashboard_to_json_data(self)
      [] self.cls = "Graph" -> Graph_to_json_data(self)
      [] self.cls = "SparkLine" -> SparkLine_to_json_data(self)
      [] self.cls = "ValueMap" -> ValueMap_to_json_data(self)
      [] self.cls = "RangeMap" -> RangeMap_to_json_data(self)
      [] self.cls = "Gauge" -> Gauge_to_json_data(self)
      [] self.cls = "Text" -> Text_to_json_data(self)
      [] self.cls = "SingleStat" -> SingleStat_to_json_data(self)
      [] self.cls = "Table" -> Table_to_json_data(self)

\* what json.dumps(v, cls=DashboardEncoder) followed by json.loads gives:
\* the encoder replaces every object that has to_json_data by the encoding
\* of obj.to_json_data(); a tuple is written as a list
RECURSIVE JsonEncode(_)
JsonEncode(v) ==
    IF IsObj(v) THEN JsonEncode(to_json_data(v))
    ELSE IF IsList(v) THEN L([i \in 1..Len(v.list) |-> JsonEncode(v.list[i])])
    ELSE IF IsTuple(v) THEN L([i \in 1..Len(v.tuple) |-> JsonEncode(v.tuple[i])])
    ELSE IF IsDict(v) THEN D([k \in DOMAIN v.dict |-> JsonEncode(v.dict[k])])
    ELSE v

---------------------------------------------------------------------------
Init ==
    /\ heap = <<>>
    /\ pending = <<>>
    /\ rowRefs = <<>>
    /\ rowArgs = <<>>
    /\ dash = None
    /\ result = None
    /\ orig = None
    /\ json = None
    /\ wire = None
    /\ dec = None
    /\ warned = <<>>
    /\ assigned = <<>>
    /\ rewire = None

\* the ids and the spans a panel is constructed with
PanelIds == {None} \cup {I(i) : i \in 0..MaxId}
PanelSpans == {None, I(5), I(6), I(8)}

\* the number of panels handed to a Row so far
RECURSIVE Total(_)
Total(lists) == IF lists = <<>> THEN 0 ELSE Len(Head(lists)) + Total(Tail(lists))

\* panel = Text(content='text', id=id, span=span); panels.append(panel)
NewPanel(id, span) ==
    /\ dash = None
    /\ Len(pending) + Total(rowArgs) < MaxPanels
    /\ LET panel == Text([content |-> S("text"), id |-> id, span |-> span])
       IN /\ panel.ok
          /\ heap' = Append(heap, panel.val)
          /\ pending' = Append(pending, Ref(Len(heap) + 1))
    /\ UNCHANGED <<rowRefs, rowArgs, dash, result, orig, json, wire, dec, warned, assigned, rewire>>

\* rows.append(Row(panels=panels)); panels = []
MakeRow ==
    /\ dash = None
    /\ Len(rowRefs) < MaxRows
    /\ LET row == Row_init(heap, [panels |-> L(pending)])
       IN /\ row.ok
          /\ heap' = Append(row.mem, row.val)
          /\ rowRefs' = Append(rowRefs, Ref(Len(row.mem) + 1))
    /\ rowArgs' = Append(rowArgs, pending)
    /\ pending' = <<>>
    /\ UNCHANGED <<dash, result, orig, json, wire, dec, warned, assigned, rewire>>

\* dashboard = Dashboard(title='dashboard', rows=rows)
MakeDashboard ==
    /\ dash = None
    /\ pending = <<>>
    /\ LET d == Dashboard([title |-> S("dashboard"), rows |-> L(rowRefs)])
       IN /\ d.ok
          /\ heap' = Append(heap, d.val)
          /\ dash' = Ref(Len(heap) + 1)
    /\ UNCHANGED <<pending, rowRefs, rowArgs, result, orig, json, wire, dec, warned, assigned, rewire>>

\* the call has returned the Dashboard new.val, allocated in new.mem
Renumbered(new) ==
    /\ heap' = new.mem
    /\ result' = new.val

\* result = dashboard.auto_panel_ids()
AutoPanelIds ==
    /\ dash # None
    /\ result = None
    /\ Renumbered(auto_panel_ids(heap, dash))
    /\ UNCHANGED <<pending, rowRefs, rowArgs, dash, orig, json, wire, dec, warned, assigned, rewire>>

---------------------------------------------------------------------------
(* encoding and decoding *)

Bools == {B(FALSE), B(TRUE)}

\* a target, an alert condition and an alert as the documentation builds them
SampleTarget == Target([expr |-> S("up"), refId |-> S("A")]).val

SampleCondition ==
    AlertCondition([target |-> SampleTarget, evaluator |-> GreaterThan(I(5)),
                    timeRange |-> TimeRange([from_time |-> S("5m"), to_time |-> S("now")]).val,
                    operator |-> OP_AND, reducerType |-> RTYPE_AVG]).val

\* alert conditions over other targets, time ranges and operators
SampleConditions ==
    {AlertCondition([target |-> Target([expr |-> S("up"), refId |-> r]).val,
                     evaluator |-> GreaterThan(I(5)),
                     timeRange |-> TimeRange([from_time |-> f, to_time |-> S("now")]).val,
                     operator |-> op, reducerType |-> RTYPE_AVG]).val :
        r \in {S("A"), S("B")}, f \in {S("5m"), S("1h")}, op \in {OP_AND, OP_OR}}

SampleAlert ==
    Alert([name |-> S("alert"), message |-> S("message"),
           alertConditions |-> L(<<SampleCondition>>)]).val

SampleTemplate ==
    Template([name |-> S("var"), default |-> S("all"), dataSource |-> S("ds"),
              query |-> S("label_values(job)")]).val

\* legends with every choice of the four statistics, values unset and set
SampleLegends ==
    {Legend([avg |-> a, current |-> c, max |-> mx, min |-> mn, values |-> v]).val :
        a \in Bools, c \in Bools, mx \in Bools, mn \in Bools, v \in {None} \cup Bools}

\* values of the leaf classes
LeafSamples ==
    {Grid(NoArgs).val, Grid([threshold1 |-> I(1), threshold1Color |-> RED]).val}
    \cup SampleLegends
    \cup {Legend([avg |-> a]).val : a \in Bools}
    \cup {Legend([avg |-> a, values |-> v]).val : a \in Bools, v \in Bools}
    \cup {Tooltip([shared |-> b]).val : b \in Bools}
    \cup {XAxis([show |-> b]).val : b \in Bools}
    \cup {XAxis([mode |-> S("series")]).val, XAxis([name |-> S("x")]).val}
    \cup {YAxis([format |-> f]).val : f \in {None, SHORT_FORMAT}}
    \cup {YAxes(NoArgs).val, YAxes([left |-> YAxis([min |-> None]).val]).val}
    \cup {SparkLine([show |-> b]).val : b \in Bools}
    \cup {Gauge([show |-> b]).val : b \in Bools}
    \cup {ValueMap([op |-> S("="), text |-> S("N/A"), value |-> S("null")]).val}
    \cup {RangeMap([start |-> I(0), end |-> I(1), text |-> S("low")]).val}
    \cup {MAPPING_VALUE_TO_TEXT, MAPPING_RANGE_TO_TEXT}
    \cup {GreaterThan(I(5))}
    \cup {TimeRange([from_time |-> S("5m"), to_time |-> S("now")]).val}
    \cup {DEFAULT_TIME}
    \cup {DEFAULT_TIME_PICKER,
          TimePicker([refreshIntervals |-> L(<<>>), timeOptions |-> L(<<>>),
                      type |-> S("timepicker")]).val}
    \cup {DashboardLink(NoArgs).val,
          DashboardLink([dashboard |-> S("other"), uri |-> S("db/other")]).val,
          DashboardLink([dashboard |-> S("other"), title |-> S("other")]).val,
          DashboardLink([url |-> S("http://host/")]).val}
    \cup {DataSourceInput([name |-> S("ds"), label |-> S("ds"), pluginId |-> S("prometheus"),
                           pluginName |-> S("Prometheus")]).val}
    \cup {ConstantInput([name |-> S("c"), label |-> S("c"), value |-> S("1")]).val}
    \cup {Annotations(NoArgs).val}
    \cup {Templating(NoArgs).val, Templating([list |-> L(<<SampleTemplate>>)]).val}
    \cup {SampleTemplate,
          Template([name |-> S("var"), default |-> S("all"), dataSource |-> S("ds"),
                    query |-> S("label_values(job)"), type |-> S("custom")]).val}

\* the classes of LeafSamples
LeafTypes ==
    {"Grid", "Legend", "Tooltip", "XAxis", "YAxis", "YAxes", "SparkLine", "Gauge",
     "ValueMap", "RangeMap", "Mapping", "Evaluator", "TimeRange", "Time", "TimePicker",
     "DashboardLink", "DataSourceInput", "ConstantInput", "Annotations", "Templating",
     "Template"}

\* panels of the four kinds, with and without a title row
SamplePanels ==
    {Graph([title |-> S("graph"), dataSource |-> S("ds"), targets |-> L(<<SampleTarget>>)]).val,
     Graph([title |-> S("graph"), dataSource |-> S("ds"), targets |-> L(<<SampleTarget>>),
            legend |-> Legend([values |-> B(FALSE)]).val, alert |-> SampleAlert]).val,
     Graph([title |-> S("graph"), dataSource |-> S("ds"), targets |-> L(<<SampleTarget>>),
            legend |-> Legend([values |-> B(FALSE)]).val, id |-> I(1), span |-> I(6)]).val,
     Text([content |-> S("text")]).val,
     Text([content |-> S("text"), id |-> I(2), span |-> I(6)]).val,
     SingleStat([title |-> S("stat"), dataSource |-> S("ds"), targets |-> L(<<SampleTarget>>)]).val,
     Table([title |-> S("table"), dataSource |-> S("ds"), targets |-> L(<<SampleTarget>>)]).val}

\* panels constructed with a type of the caller's choice
TypedPanels ==
    {Graph([title |-> S("graph"), dataSource |-> S("ds"), targets |-> L(<<SampleTarget>>),
            type |-> t]).val : t \in {TEXT_TYPE, S("custom")}}
    \cup {Text([content |-> S("text"), type |-> t]).val : t \in {GRAPH_TYPE, S("custom"), None}}
    \cup {SingleStat([title |-> S("stat"), dataSource |-> S("ds"), targets |-> L(<<SampleTarget>>),
                      type |-> t]).val : t \in {TABLE_TYPE, S("custom")}}
    \cup {Table([title |-> S("table"), dataSource |-> S("ds"), targets |-> L(<<SampleTarget>>),
                 type |-> t]).val : t \in {SINGLESTAT_TYPE, S("custom")}}

SampleRows ==
    {Row([panels |-> L(ps)]).val : ps \in {<<>>} \cup {<<p>> : p \in SamplePanels}}
    \cup {Row([panels |-> L(<<p>>), title |-> S("row"), showTitle |-> B(TRUE)]).val :
            p \in SamplePanels}

SampleDashboards ==
    {Dashboard([title |-> S("dashboard"), rows |-> L(rs)]).val :
        rs \in {<<>>} \cup {<<r>> : r \in SampleRows}}
    \cup {Dashboard([title |-> S("dashboard"), rows |-> L(<<>>),
                     templating |-> Templating([list |-> L(<<SampleTemplate>>)]).val]).val,
          Dashboard([title |-> S("dashboard"), rows |-> L(<<>>),
                     links |-> L(<<DashboardLink([dashboard |-> S("other"), uri |-> S("db/other"),
                                                  title |-> S("other")]).val>>)]).val,
          Dashboard([title |-> S("dashboard"), rows |-> L(<<>>),
                     inputs |-> L(<<ConstantInput([name |-> S("c"), label |-> S("c"),
                                                   value |-> S("1")]).val>>)]).val}

Samples ==
    LeafSamples \cup SamplePanels \cup TypedPanels \cup SampleRows \cup SampleDashboards
    \cup {SampleTarget, SampleAlert} \cup SampleConditions

\* x = cls(...)
Construct ==
    /\ orig = None
    /\ \E x \in Samples : orig' = x
    /\ UNCHANGED <<heap, pending, rowRefs, rowArgs, dash, result, json, wire, dec, warned, assigned, rewire>>

\* data = x.to_json_data()
ToJsonData ==
    /\ orig # None
    /\ json = None
    /\ json' = to_json_data(orig)
    /\ UNCHANGED <<heap, pending, rowRefs, rowArgs, dash, result, orig, wire, dec, warned, assigned, rewire>>

\* wire = json.loads(json.dumps(data, cls=DashboardEncoder))
Dumps ==
    /\ json # None
    /\ wire = None
    /\ wire' = JsonEncode(json)
    /\ UNCHANGED <<heap, pending, rowRefs, rowArgs, dash, result, orig, json, dec, warned, assigned, rewire>>

\* the call has ended with out: what it returned or raised, and what it had set
Returned(out) ==
    /\ dec' = Outcome(out)
    /\ assigned' = assigned \o Assignments(out)

\* y = cls.parse_json_data(wire), for the class of x
Decode ==
    /\ wire # None
    /\ dec = None
    /\ Returned(Call(Fn(orig.cls \o ".parse_json_data"), wire))
    /\ UNCHANGED <<heap, pending, rowRefs, rowArgs, dash, result, orig, json, wire, warned, rewire>>

---------------------------------------------------------------------------
(* decoding a wire form that was received, not produced by to_json_data *)

\* the characters the received strings are made of
Alphabet == {"2", "5", "p", "x", "%", ".", "-", "\n"}

\* every string of at most n characters of Alphabet
RECURSIVE Strings(_)
Strings(n) ==
    IF n = 0 THEN {<<>>}
    ELSE Strings(n - 1) \cup {Append(t, c) : t \in Strings(n - 1), c \in Alphabet}

\* "s" as characters, for the longer strings
Text250 == <<"2", "5", "0">>
Text250px == <<"2", "5", "0", "p", "x">>
TextRgb == <<"r", "g", "b", "(", "1", ",", " ", "2", ",", " ", "3", ")">>
TextRgba == <<"r", "g", "b", "a", "(", "1", ",", " ", "2", ",", " ", "3", ",", " ", "0", ".", "5", ")">>

\* the strings a decoder of a string grammar is handed
Texts ==
    {Tx(t) : t \in Strings(MaxText)}
    \cup {Tx(Text250), Tx(Text250px), Tx(Text250px \o <<"\n">>), Tx(Text250px \o <<" ">>),
          Tx(TextRgb), Tx(TextRgb \o <<"\n">>), Tx(TextRgb \o <<";">>), Tx(<<" ">> \o TextRgb),
          Tx(TextRgba), Tx(TextRgba \o <<"\n">>), Tx(TextRgba \o <<";">>),
          Tx(<<"r", "g", "b", "a", "(", "1", ",", " ", "2", ",", " ", "3", ",", " ", "1", ")">>),
          S("not-a-color"), S("")}

\* the ints a decoder is handed in place of a string
Ints == {I(-5), I(0), I(7), I(250), B(TRUE)}

\* the classes with a string grammar
TextTypes == {"RGBA", "RGB", "Pixels", "Percent"}

\* values of the classes with a string grammar
TextSamples ==
    {Pixels([num |-> n]).val : n \in Ints}
    \cup {Percent([num |-> n]).val : n \in Ints \cup {F(<<"1", "2", ".", "5">>), F(<<"5", "0", ".", "0">>)}}
    \cup {Percent(NoArgs).val, BLUE_RGB, BLUE_RGBA, RED}

\* x = cls(...), for a class with a string grammar
ConstructText ==
    /\ orig = None
    /\ \E x \in TextSamples : orig' = x
    /\ UNCHANGED <<heap, pending, rowRefs, rowArgs, dash, result, json, wire, dec, warned, assigned, rewire>>

\* data arrives to be decoded by cls.parse_json_data: orig is the class alone,
\* and data is both what to_json_data would have had to produce and the wire form
Receive(cls, data) ==
    /\ orig = None
    /\ orig' = [cls |-> cls]
    /\ json' = data
    /\ wire' = data
    /\ UNCHANGED <<heap, pending, rowRefs, rowArgs, dash, result, dec, warned, assigned, rewire>>

---------------------------------------------------------------------------
(* decoding a mapping by its type tag *)

\* the values the 'type' key of a received mapping holds
WireTypes ==
    {GRAPH_TYPE, TEXT_TYPE, SINGLESTAT_TYPE, TABLE_TYPE, DATASOURCE_TYPE, CONSTANT_TYPE,
     S("row"), S(""), None, I(1), B(TRUE), L(<<GRAPH_TYPE>>)}

\* the wire forms of the panels and of the inputs
WireBodies ==
    {JsonEncode(x) : x \in SamplePanels \cup TypedPanels}
    \cup {JsonEncode(x) : x \in {y \in LeafSamples : y.cls \in {"DataSourceInput", "ConstantInput"}}}
    \cup {D(NoArgs)}

\* the mappings received: a wire form with a type of the sender's choice, or without one
WireObjects ==
    {D(SetItem(body.dict, "type", t)) : body \in WireBodies, t \in WireTypes}
    \cup {D(Pop(body.dict, "type")) : body \in WireBodies}

\* data arrives where a panel (an input) is expected: decoder is the function
\* that Row.parse_json_data (Dashboard.parse_json_data) applies to it
ReceiveObject(decoder, data) ==
    /\ orig = None
    /\ orig' = decoder
    /\ json' = data
    /\ wire' = data
    /\ UNCHANGED <<heap, pending, rowRefs, rowArgs, dash, result, dec, warned, assigned, rewire>>

\* y = parse_object(wire, mapping)
ParseObject ==
    /\ "fn" \in DOMAIN orig
    /\ dec = None
    /\ dec' = Call(orig, wire)
    /\ UNCHANGED <<heap, pending, rowRefs, rowArgs, dash, result, orig, json, wire, warned, assigned, rewire>>

---------------------------------------------------------------------------
(* the pair of Y axes: decoded from a sequence, and passed to Graph(yAxes=...) *)

\* every sequence of at most n elements of set
RECURSIVE Seqs(_, _)
Seqs(set, n) ==
    IF n = 0 THEN {<<>>}
    ELSE Seqs(set, n - 1) \cup {Append(t, x) : t \in Seqs(set, n - 1), x \in set}

SampleAxes ==
    {YAxis(NoArgs).val, YAxis([format |-> SHORT_FORMAT]).val, YAxis([min |-> None]).val}

\* what YAxes.parse_json_data is handed: lists of the wire forms of axes
AxesWires == {L(t) : t \in Seqs({JsonEncode(y) : y \in SampleAxes}, MaxAxes)}

\* what Graph is handed as yAxes: a YAxes, lists and tuples of axes, other values
AxesArguments ==
    {YAxes(NoArgs).val, YAxes([left |-> YAxis([min |-> None]).val]).val}
    \cup {L(t) : t \in Seqs(SampleAxes, MaxAxes)}
    \cup {Tu(t) : t \in Seqs(SampleAxes, MaxAxes)}
    \cup {None, I(2), S("left"), YAxis(NoArgs).val, D(NoArgs), L(<<I(1), I(2)>>)}

\* Graph(title='graph', dataSource='ds', targets=[...], yAxes=data): the
\* outcome of the call, and the warnings it issued
ConstructGraph(data) ==
    /\ orig = None
    /\ LET graph == Graph([title |-> S("graph"), dataSource |-> S("ds"),
                           targets |-> L(<<SampleTarget>>), yAxes |-> data])
       IN /\ dec' = Outcome(graph)
          /\ warned' = warned \o Warnings(graph)
    /\ orig' = Fn("Graph")
    /\ wire' = data
    /\ UNCHANGED <<heap, pending, rowRefs, rowArgs, dash, result, json, assigned, rewire>>

---------------------------------------------------------------------------
(* decoding a mapping that holds a key the sender made up *)

\* the wire forms of the samples that are encoded as a mapping
SampleWires == {w \in {[cls |-> x.cls, data |-> JsonEncode(x)] : x \in Samples} : IsDict(w.data)}

\* the same with one more key, at the top level
ExtendedWires ==
    {[cls |-> w.cls, data |-> D(SetItem(w.data.dict, k, I(1)))] :
        w \in SampleWires, k \in {"bogus", "unknownKey"}}

\* dashboards: panels with any id, rows, a dashboard, auto_panel_ids
Next ==
    \/ \E id \in PanelIds : NewPanel(id, None)
    \/ MakeRow
    \/ MakeDashboard
    \/ AutoPanelIds

Spec == Init /\ [][Next]_vars

\* rows: panels with any span, Row(panels=...)
NextRow ==
    \/ \E span \in PanelSpans : NewPanel(None, span)
    \/ MakeRow

SpecRow == Init /\ [][NextRow]_vars

\* round trips: construct, to_json_data, encode, parse_json_data
NextCodec ==
    \/ Construct
    \/ ToJsonData
    \/ Dumps
    \/ Decode

SpecCodec == Init /\ [][NextCodec]_vars

\* the string grammars: a value is encoded and decoded, or a received string is decoded
NextText ==
    \/ ConstructText
    \/ \E cls \in TextTypes, data \in Texts \cup Ints : Receive(cls, data)
    \/ ToJsonData
    \/ Dumps
    \/ Decode

SpecText == Init /\ [][NextText]_vars

\* the type tags: a received mapping is decoded as a panel or as an input
NextObject ==
    \/ \E decoder \in {Fn("lambda pnl: parse_object(pnl, PANEL_TYPES)"),
                       Fn("lambda input: parse_object(input, INPUT_TYPES)")},
          data \in WireObjects : ReceiveObject(decoder, data)
    \/ ParseObject

SpecObject == Init /\ [][NextObject]_vars

\* the Y axes: a received sequence is decoded as YAxes, or a Graph is constructed
NextAxes ==
    \/ \E data \in AxesWires : Receive("YAxes", data)
    \/ Decode
    \/ \E data \in AxesArguments : ConstructGraph(data)

SpecAxes == Init /\ [][NextAxes]_vars

\* unknown keys: a received mapping, as encoded or with one more key, is decoded
NextKeys ==
    \/ \E w \in SampleWires \cup ExtendedWires : Receive(w.cls, w.data)
    \/ Decode

SpecKeys == Init /\ [][NextKeys]_vars

---------------------------------------------------------------------------
(* auto_panel_ids: claims C1 .. C4 *)

\* the ids of the panels of dashboard d, in the order of _iter_panels
IdsOf(mem, d) ==
    LET panels == Dashboard_iter_panels(mem, d)
    IN [i \in 1..Len(panels) |-> Deref(mem, panels[i]).id]

\* the panels of dashboard d, in the order of _iter_panels
PanelsOf(mem, d) ==
    LET panels == Dashboard_iter_panels(mem, d)
    IN [i \in 1..Len(panels) |-> Deref(mem, panels[i])]

\* the step that calls auto_panel_ids
AutoStep == result = None /\ result' # None

\* the k-th smallest positive integer that is not in the set taken
KthFree(taken, k) ==
    CHOOSE n \in 1..(k + Cardinality(taken)) :
        n \notin taken /\ Cardinality({m \in 1..n : m \notin taken}) = k

\* C1 as stated: in the dashboard auto_panel_ids returns, whatever ids the
\* panels had, every panel has a non-null id and no two panels share an id.
C1_AllIdsUnique ==
    result # None =>
        LET ids == IdsOf(heap, result)
        IN /\ \A i \in 1..Len(ids) : ~IsNone(ids[i])
           /\ \A i, j \in 1..Len(ids) : i # j => ids[i] # ids[j]

\* C1 amended: in the dashboard auto_panel_ids returns every panel has a
\* non-null, non-zero id; an id the call assigned differs from the id of
\* every other panel; and when the ids the panels came with were pairwise
\* distinct, no two panels of the result share an id.
C1_NewIdsUnique ==
    [][AutoStep =>
        LET old == IdsOf(heap, dash)
            new == IdsOf(heap', result')
        IN /\ Len(new) = Len(old)
           /\ \A i \in 1..Len(new) : ~IsNone(new[i]) /\ Truthy(new[i])
           /\ \A i, j \in 1..Len(new) : i # j /\ ~Truthy(old[i]) => new[i] # new[j]
           /\ (\A i, j \in 1..Len(old) :
                    i # j /\ Truthy(old[i]) /\ Truthy(old[j]) => old[i] # old[j])
              => \A i, j \in 1..Len(new) : i # j => new[i] # new[j]]_vars

\* C1 witness: a result in which an assigned id sits next to kept ids
C1_Witness ==
    /\ result # None
    /\ LET old == IdsOf(heap, dash)
       IN /\ Len(old) = MaxPanels
          /\ \E i, j \in 1..Len(old) : ~Truthy(old[i]) /\ Truthy(old[j])

\* C2: auto_panel_ids visits the panels row by row and, in a row, panel by
\* panel; the k-th panel it finds without an id (None or 0) gets the k-th
\* smallest positive integer that is the id of no panel of the dashboard,
\* so the assigned ids increase in visit order.
C2_KthFreeId ==
    [][AutoStep =>
        LET old == IdsOf(heap, dash)
            new == IdsOf(heap', result')
            taken == {IntOf(old[i]) : i \in {j \in 1..Len(old) : Truthy(old[j])}}
            rank(i) == Cardinality({j \in 1..i : ~Truthy(old[j])})
        IN /\ Len(new) = Len(old)
           /\ \A i \in 1..Len(old) :
                ~Truthy(old[i]) => new[i] = I(KthFree(taken, rank(i)))
           /\ \A i, j \in 1..Len(old) :
                i < j /\ ~Truthy(old[i]) /\ ~Truthy(old[j]) => IntOf(new[i]) < IntOf(new[j])]_vars

\* C2 witness: ids (2, None, None) in two rows have become (2, 1, 3)
C2_Witness ==
    /\ result # None
    /\ Len(rowArgs) = 2 /\ Len(rowArgs[1]) = 2
    /\ IdsOf(heap, dash) = <<I(2), None, None>>
    /\ IdsOf(heap, result) = <<I(2), I(1), I(3)>>

\* C3: a panel that has an id (not None, not 0) before auto_panel_ids is
\* the same panel, with the same id and the same other fields, at the same
\* position of the result.
C3_IdsKept ==
    [][AutoStep =>
        LET old == PanelsOf(heap, dash)
            new == PanelsOf(heap', result')
        IN /\ Len(new) = Len(old)
           /\ \A i \in 1..Len(old) : Truthy(old[i].id) => new[i] = old[i]]_vars

\* C3 witness: a result with a kept id above the ids that were assigned
C3_Witness ==
    /\ result # None
    /\ \E i \in 1..Len(IdsOf(heap, dash)) :
            /\ IdsOf(heap, dash)[i] = I(MaxId)
            /\ IdsOf(heap, result)[i] = I(MaxId)
    /\ \E i \in 1..Len(IdsOf(heap, dash)) : IdsOf(heap, dash)[i] = None

\* C4: auto_panel_ids returns a new Dashboard, and the dashboard it was
\* called on, its rows and its panels, like every object that existed
\* before the call, have the field values they had.
C4_OriginalUnchanged ==
    [][AutoStep =>
        /\ result' # dash
        /\ result'.ref > Len(heap)
        /\ Len(heap') >= Len(heap)
        /\ \A a \in 1..Len(heap) : heap'[a] = heap[a]]_vars

\* C4 witness: a result for a dashboard that had a panel without an id
C4_Witness ==
    /\ result # None
    /\ result # dash
    /\ \E i \in 1..Len(IdsOf(heap, dash)) : IdsOf(heap, dash)[i] = None
---------------------------------------------------------------------------
(* Row balancing: claims C5, C6 *)

\* the objects a list of references points at
Objects(mem, refs) == [i \in 1..Len(refs) |-> Deref(mem, refs[i])]

\* the sum of the spans that are not None
RECURSIVE SumSpans(_)
SumSpans(panels) ==
    IF panels = <<>> THEN 0
    ELSE (IF IsNone(Head(panels).span) THEN 0 ELSE IntOf(Head(panels).span))
         + SumSpans(Tail(panels))

\* the number of panels whose span is None
NoSpan(panels) == Cardinality({i \in 1..Len(panels) : IsNone(panels[i].span)})

\* the step that constructs a Row
RowStep == Len(rowRefs') = Len(rowRefs) + 1

\* C5: Row(panels=...) keeps the panels in their order and keeps every
\* panel that declared a span as it is; a panel that declared none gets the
\* span w = ceil((12 - S) / k), the integer with k * (w - 1) < 12 - S <= k * w,
\* for S the sum of the declared spans and k the number of panels without
\* one; 12 - S is not clamped at 0.
C5_BalancedSpans ==
    [][RowStep =>
        LET given == Objects(heap, pending)
            row == heap'[rowRefs'[Len(rowRefs')].ref]
            got == Objects(heap', row.panels.list)
            declared == SumSpans(given)
            k == NoSpan(given)
        IN /\ Len(got) = Len(given)
           /\ \A i \in 1..Len(given) :
                IF ~IsNone(given[i].span) THEN got[i] = given[i]
                ELSE LET w == IntOf(got[i].span)
                     IN /\ got[i] = [given[i] EXCEPT !.span = I(w)]
                        /\ k * (w - 1) < 12 - declared
                        /\ 12 - declared <= k * w]_vars

\* C5 witness: the spans (5, None, None) have become (5, 4, 4)
C5_Witness ==
    /\ Len(rowRefs) = 1
    /\ Len(rowArgs[1]) = 3
    /\ [i \in 1..3 |-> heap[rowArgs[1][i].ref].span] = <<I(5), None, None>>
    /\ [i \in 1..3 |-> heap[heap[rowRefs[1].ref].panels.list[i].ref].span]
            = <<I(5), I(4), I(4)>>

\* a row whose declared spans exceed 12: (8, None, 6) has become (8, -2, 6)
OverBudgetRow ==
    /\ Len(rowRefs) = 1
    /\ Len(rowArgs[1]) = 3
    /\ [i \in 1..3 |-> heap[rowArgs[1][i].ref].span] = <<I(8), None, I(6)>>
    /\ [i \in 1..3 |-> heap[heap[rowRefs[1].ref].panels.list[i].ref].span]
            = <<I(8), I(0 - 2), I(6)>>

\* C6 as stated: the spans of the panels of every constructed Row sum to 12.
C6_SpansSumToTotal ==
    \A r \in 1..Len(rowRefs) :
        SumSpans(Objects(heap, heap[rowRefs[r].ref].panels.list)) = 12

\* C6 amended: the spans of the panels of a constructed Row sum to 12 when
\* at least one panel declared no span and the number k of such panels
\* divides 12 - S, S being the sum of the declared spans; when every panel
\* declared a span (or the row is empty) the sum is S.
C6_SpansSumWhenDivisible ==
    \A r \in 1..Len(rowRefs) :
        LET given == Objects(heap, rowArgs[r])
            got == Objects(heap, heap[rowRefs[r].ref].panels.list)
            declared == SumSpans(given)
            k == NoSpan(given)
        IN /\ NoSpan(got) = 0
           /\ k = 0 => SumSpans(got) = declared
           /\ k > 0 /\ (12 - declared) % k = 0 => SumSpans(got) = 12

\* C6 witness: the spans (6, None, None) have become (6, 3, 3)
C6_Witness ==
    \E r \in 1..Len(rowRefs) :
        /\ Len(rowArgs[r]) = 3
        /\ [i \in 1..3 |-> heap[rowArgs[r][i].ref].span] = <<I(6), None, None>>
        /\ [i \in 1..3 |-> heap[heap[rowRefs[r].ref].panels.list[i].ref].span]
                = <<I(6), I(3), I(3)>>
---------------------------------------------------------------------------
(* encoding and decoding: claims C7 .. C10 *)

\* C7 as stated: for every value x of a leaf class, parse_json_data of the
\* fully encoded to_json_data(x) returns a record equal to x.
C7_LeafRoundTrip ==
    dec # None /\ orig.cls \in LeafTypes => dec = Ok(orig)

\* C8 as stated: for every Dashboard d, parse_json_data of the fully
\* encoded to_json_data(d) returns a Dashboard equal to d.
C8_DashboardRoundTrip ==
    dec # None /\ orig.cls = "Dashboard" => dec = Ok(orig)

\* C9: AlertCondition.to_json_data returns the mapping with evaluator and
\* type and the nested operator = {type: operator}, query = {model: target,
\* params: [target.refId, timeRange.from_time, timeRange.to_time]} and
\* reducer = {params: [], type: reducerType}; params has three elements.
C9_NestedShape ==
    json # None /\ orig.cls = "AlertCondition" =>
        /\ json = D([evaluator |-> orig.evaluator,
                     operator |-> D([type |-> orig.operator]),
                     query |-> D([model |-> orig.target,
                                  params |-> L(<<orig.target.refId,
                                                 orig.timeRange.from_time,
                                                 orig.timeRange.to_time>>)]),
                     reducer |-> D([params |-> L(<<>>), type |-> orig.reducerType]),
                     type |-> orig.type])
        /\ Len(json.dict.query.dict.params.list) = 3

\* C9 witness: the documented condition encoded with params [A, 5m, now]
C9_Witness ==
    /\ json # None
    /\ orig = SampleCondition
    /\ json.dict.query.dict.params = L(<<S("A"), S("5m"), S("now")>>)
    /\ json.dict.operator = D([type |-> S("and")])

\* C10 as stated: parse_json_data of an encoded AlertCondition succeeds
\* and returns a condition whose target has the refId of the original,
\* whose timeRange equals the original TimeRange and whose evaluator,
\* operator and reducerType equal the originals.
C10_DecodeReversesEncode ==
    dec # None /\ orig.cls = "AlertCondition" =>
        /\ dec.ok
        /\ dec.val.target.refId = orig.target.refId
        /\ dec.val.timeRange = orig.timeRange
        /\ dec.val.evaluator = orig.evaluator
        /\ dec.val.operator = orig.operator
        /\ dec.val.reducerType = orig.reducerType

---------------------------------------------------------------------------
(* the string grammars: claims C11 .. C14 *)

\* cls.parse_json_data was applied to a received wire form and has finished
Received(cls) == DOMAIN orig = {"cls"} /\ orig.cls = cls /\ dec # None

\* a value of class cls was constructed, encoded, and its encoding decoded
RoundTripped(cls) == "cls" \in DOMAIN orig /\ DOMAIN orig # {"cls"} /\ orig.cls = cls /\ dec # None

\* chars is one or more decimal digits
IsDigits(chars) == chars # <<>> /\ \A i \in 1..Len(chars) : IsDigit(chars[i])

\* chars is digits with an optional 'px' suffix: the digits, or <<>> when it is not
PixelsDigits(chars) ==
    IF IsDigits(chars) THEN chars
    ELSE IF Len(chars) >= 3 /\ SubSeq(chars, Len(chars) - 1, Len(chars)) = <<"p", "x">>
            /\ IsDigits(SubSeq(chars, 1, Len(chars) - 2))
    THEN SubSeq(chars, 1, Len(chars) - 2)
    ELSE <<>>

\* the call raised the parse error
ParseError(out) == ~out.ok /\ out.exc = "ParseJsonException"

\* C11: Pixels.parse_json_data has three outcomes. An int n, or a string of
\* digits with an optional 'px' suffix that denotes n, decodes to Pixels(n);
\* the empty string decodes to None; every other string raises
\* ParseJsonException.
C11_ThreeOutcomes ==
    Received("Pixels") =>
        IF IsInt(wire) THEN dec = Ok([cls |-> "Pixels", num |-> wire])
        ELSE IF PixelsDigits(Chars(wire)) # <<>>
        THEN dec = Ok([cls |-> "Pixels", num |-> I(ParseNat(PixelsDigits(Chars(wire))))])
        ELSE IF Chars(wire) = <<>> THEN dec = Ok(None)
        ELSE ParseError(dec)

\* C11, the accepted inputs and the empty string alone: they decode as stated
C11_AcceptedInputs ==
    Received("Pixels") =>
        /\ IsInt(wire) => dec = Ok([cls |-> "Pixels", num |-> wire])
        /\ (IsStr(wire) /\ PixelsDigits(Chars(wire)) # <<>>) =>
              dec = Ok([cls |-> "Pixels", num |-> I(ParseNat(PixelsDigits(Chars(wire))))])
        /\ (IsStr(wire) /\ Chars(wire) = <<>>) => dec = Ok(None)

\* "250px" was decoded to Pixels(250)
C11_Witness ==
    Received("Pixels") /\ wire = Tx(Text250px) /\ dec = Ok([cls |-> "Pixels", num |-> I(250)])

\* a string that is not digits with an optional 'px' was decoded to a Pixels
C11_NewlineAccepted ==
    Received("Pixels") /\ wire = Tx(<<"2", "p", "x", "\n">>) /\ dec = Ok([cls |-> "Pixels", num |-> I(2)])

\* C12: the round trip of a Pixels value is exact: for every constructible
\* Pixels(n), Pixels.parse_json_data(Pixels(n).to_json_data()) == Pixels(n).
C12_PixelsRoundTrip == RoundTripped("Pixels") => dec = Ok(orig)

\* C12 for the Pixels of a non-negative int that is not a bool
C12_NonNegativeRoundTrip ==
    (RoundTripped("Pixels") /\ DOMAIN orig.num = {"int"} /\ orig.num.int >= 0) => dec = Ok(orig)

\* Pixels(250) was encoded to "250px" and decoded to Pixels(250)
C12_Witness ==
    RoundTripped("Pixels") /\ orig.num = I(250) /\ wire = Tx(Text250px) /\ dec = Ok(orig)

\* chars is an integer numeral followed by '%': the numeral, or <<>> when it is not
PercentDigits(chars) ==
    IF Len(chars) >= 2 /\ chars[Len(chars)] = "%" /\ IsDigits(SubSeq(chars, 1, Len(chars) - 1))
    THEN SubSeq(chars, 1, Len(chars) - 1)
    ELSE <<>>

\* Percent(n).to_json_data() of a float n, or of a non-negative int n, decoded
C13_RoundTrips ==
    RoundTripped("Percent") =>
        /\ IsFloat(orig.num) => ParseError(dec)
        /\ (DOMAIN orig.num = {"int"} /\ orig.num.int >= 0) => dec = Ok(orig)

\* C13: Percent.parse_json_data accepts only an integer numeral followed by
\* '%' and returns Percent of that integer; a Percent built from a
\* non-integer number encodes unrounded, so decoding its encoding raises
\* ParseJsonException; the round trip of a non-negative integer Percent is exact.
C13_PercentCodec ==
    /\ (Received("Percent") /\ IsStr(wire)) =>
          IF PercentDigits(Chars(wire)) # <<>>
          THEN dec = Ok([cls |-> "Percent", num |-> I(ParseNat(PercentDigits(Chars(wire))))])
          ELSE ~dec.ok
    /\ C13_RoundTrips

\* Percent(12.5) was encoded to "12.5%", which was not decoded
C13_Witness ==
    /\ RoundTripped("Percent")
    /\ orig.num = F(<<"1", "2", ".", "5">>)
    /\ wire = Tx(<<"1", "2", ".", "5", "%">>)
    /\ ParseError(dec)

\* Percent(7) was encoded to "7%" and decoded to Percent(7)
C13_IntegerWitness ==
    RoundTripped("Percent") /\ orig.num = I(7) /\ wire = Tx(<<"7", "%">>) /\ dec = Ok(orig)

\* the groups REGEX of class cls finds in chars, or <<>> when there is no match
RegexMatch(cls, chars) ==
    CASE cls = "RGBA" -> RGBA_REGEX(chars)
      [] cls = "RGB" -> RGB_REGEX(chars)
      [] cls = "Percent" -> Percent_REGEX(chars)
      [] cls = "Pixels" -> Pixels_REGEX(chars)

\* chars, all of it, has the shape of the grammar of cls
InGrammar(cls, chars) == RegexMatch(cls, chars) # <<>> /\ chars[Len(chars)] # "\n"

\* out is ParseJsonException with a message that ends with the characters of data
RejectedWithInput(out, data) ==
    /\ ParseError(out)
    /\ DOMAIN out.arg = {"text"}
    /\ Len(out.arg.text) > Len(Chars(data))
    /\ Drop(out.arg.text, Len(out.arg.text) - Len(Chars(data))) = Chars(data)

\* C14: for RGBA, RGB and Percent, parse_json_data of a string that does not
\* have the shape of the type's grammar never returns a value: it raises
\* ParseJsonException with a message that carries the string.
C14_GrammarRejection ==
    \A cls \in {"RGBA", "RGB", "Percent"} :
        (Received(cls) /\ IsStr(wire) /\ ~InGrammar(cls, Chars(wire))) =>
            RejectedWithInput(dec, wire)

\* C14 for the strings REGEX.match finds no match in
C14_NoMatchRejection ==
    \A cls \in {"RGBA", "RGB", "Percent"} :
        (Received(cls) /\ IsStr(wire) /\ RegexMatch(cls, Chars(wire)) = <<>>) =>
            RejectedWithInput(dec, wire)

\* "not-a-color" was rejected by RGBA.parse_json_data
C14_Witness ==
    /\ Received("RGBA")
    /\ wire = S("not-a-color")
    /\ dec = Raise("ParseJsonException", Tx(<<"Unable to parse RGBA: ", "not-a-color">>))

---------------------------------------------------------------------------
(* the panels and their type tags: claims C15 .. C17 *)

\* the literal type tag of each panel class
TypeTag == [Graph |-> S("graph"), Text |-> S("text"),
            SingleStat |-> S("singlestat"), Table |-> S("table")]

\* x.to_json_data() has been called on an object of class cls
Encoded(cls) == "cls" \in DOMAIN orig /\ orig.cls = cls /\ json # None

\* C15: encoding a panel stamps the literal type tag of its class, whatever
\* the type field of the record holds: to_json_data(p)['type'] is 'graph',
\* 'text', 'singlestat' or 'table' for a Graph, Text, SingleStat or Table p.
C15_LiteralTypeTag ==
    \A cls \in DOMAIN TypeTag :
        Encoded(cls) =>
            /\ IsDict(json)
            /\ "type" \in DOMAIN json.dict
            /\ json.dict.type = TypeTag[cls]

\* Text(content='text', type='graph') was encoded with type 'text'
C15_Witness ==
    /\ Encoded("Text")
    /\ orig.type = S("graph")
    /\ json.dict.type = S("text")

\* the table parse_object was called with, when it has finished
TableOf(decoder) ==
    IF decoder = Fn("lambda pnl: parse_object(pnl, PANEL_TYPES)") THEN PANEL_TYPES ELSE INPUT_TYPES

\* parse_object was applied to a received mapping and has finished
Dispatched == "fn" \in DOMAIN orig /\ dec # None

\* wire['type'] is a key of table
TypeInTable(table) ==
    /\ "type" \in DOMAIN wire.dict
    /\ DOMAIN wire.dict.type = {"str"}
    /\ wire.dict.type.str \in DOMAIN table

\* what the decoder of the class table names for wire['type'] makes of wire
VariantOutcome(table) == Call(Fn(table[wire.dict.type.str] \o ".parse_json_data"), wire)

\* out is ParseJsonException with a message that ends with str(t)
UnknownType(out, t) ==
    /\ ParseError(out)
    /\ DOMAIN out.arg = {"text"}
    /\ Len(out.arg.text) > Len(Str(t))
    /\ Drop(out.arg.text, Len(out.arg.text) - Len(Str(t))) = Str(t)

\* a mapping whose type is in the table is decoded by the decoder of the
\* class the table names
C16_DispatchInTable ==
    (Dispatched /\ TypeInTable(TableOf(orig))) => dec = VariantOutcome(TableOf(orig))

\* C16: parse_object dispatches on the 'type' of the mapping through the
\* fixed table. A mapping whose type is in the table is decoded by the
\* decoder of exactly that class; a mapping whose type is not in the table,
\* or that has no type, raises ParseJsonException naming the type value.
\* The same holds for inputs and their table.
C16_TypeDispatch ==
    /\ C16_DispatchInTable
    /\ (Dispatched /\ ~TypeInTable(TableOf(orig))) =>
          UnknownType(dec, IF "type" \in DOMAIN wire.dict THEN wire.dict.type ELSE None)

\* the dispatch for a type that can be looked up: None, a str, a number
C16_HashableTypes ==
    /\ C16_DispatchInTable
    /\ (Dispatched /\ ~TypeInTable(TableOf(orig))
          /\ ~("type" \in DOMAIN wire.dict /\ IsList(wire.dict.type))) =>
          UnknownType(dec, IF "type" \in DOMAIN wire.dict THEN wire.dict.type ELSE None)

\* the wire form of a Text panel, sent as 'text', was decoded to a Text
C16_Witness ==
    /\ Dispatched
    /\ TableOf(orig) = PANEL_TYPES
    /\ TypeInTable(PANEL_TYPES)
    /\ wire.dict.type = TEXT_TYPE
    /\ dec.ok
    /\ dec.val.cls = "Text"

\* a mapping of type 'row' was rejected as a panel, the message naming 'row'
C16_UnknownWitness ==
    /\ Dispatched
    /\ TableOf(orig) = PANEL_TYPES
    /\ "type" \in DOMAIN wire.dict
    /\ wire.dict.type = S("row")
    /\ dec = Raise("ParseJsonException", Tx(<<"Unknown panel type ", "row">>))

\* C17: Graph.to_json_data leaves the 'alert' key out when the Graph has no
\* alert (no key, rather than a key with a null value), and maps 'alert' to
\* the alert exactly when one is attached.
C17_AlertKey ==
    Encoded("Graph") =>
        /\ IsDict(json)
        /\ ("alert" \in DOMAIN json.dict) <=> (orig.alert # None)
        /\ ("alert" \in DOMAIN json.dict) => json.dict.alert = orig.alert

\* a Graph with an alert was encoded with the alert under 'alert'
C17_Witness ==
    /\ Encoded("Graph")
    /\ orig.alert = SampleAlert
    /\ "alert" \in DOMAIN json.dict
    /\ json.dict.alert = SampleAlert

\* a Graph without an alert was encoded without the key
C17_NoAlertWitness ==
    Encoded("Graph") /\ orig.alert = None /\ "alert" \notin DOMAIN json.dict

---------------------------------------------------------------------------
(* Legend and the axes: claims C18 .. C20 *)

\* the step that calls to_json_data on an object of class cls
EncodeStep(cls) == "cls" \in DOMAIN orig /\ orig.cls = cls /\ json = None /\ json' # None

\* C18: Legend.to_json_data emits 'values' equal to (avg or current or max or
\* min) when the values field is None and equal to the values field
\* otherwise, and leaves the record as it was.
C18_LegendValues ==
    [][EncodeStep("Legend") =>
        /\ orig' = orig
        /\ json'.dict.values =
              IF orig.values = None
              THEN B(orig.avg.bool \/ orig.current.bool \/ orig.max.bool \/ orig.min.bool)
              ELSE orig.values]_vars

\* Legend(avg=True) was encoded with values == True, its values field still None
C18_Witness ==
    /\ Encoded("Legend")
    /\ orig = Legend([avg |-> B(TRUE)]).val
    /\ orig.values = None
    /\ json.dict.values = B(TRUE)

\* the elements of a list or a tuple
Elements(v) == IF IsList(v) THEN v.list ELSE v.tuple

\* C19: YAxes.parse_json_data expects a sequence of exactly two elements:
\* for two elements it returns YAxes with left decoded from element 0 and
\* right decoded from element 1, and a sequence of any other length is not
\* accepted.
C19_ExactlyTwo ==
    (Received("YAxes") /\ IsList(wire)) =>
        IF Len(wire.list) = 2
        THEN dec = YAxes([left |-> YAxis_parse_json_data(wire.list[1]).val,
                          right |-> YAxis_parse_json_data(wire.list[2]).val])
        ELSE ~dec.ok

\* C19 for the sequences of at most two elements
C19_AtMostTwo == (Received("YAxes") /\ IsList(wire) /\ Len(wire.list) <= 2) => C19_ExactlyTwo

\* a list of two axes was decoded to YAxes(left, right), the two being different
C19_Witness ==
    /\ Received("YAxes")
    /\ Len(wire.list) = 2
    /\ wire.list[1] # wire.list[2]
    /\ dec.ok
    /\ dec.val.left = YAxis_parse_json_data(wire.list[1]).val
    /\ dec.val.right = YAxis_parse_json_data(wire.list[2]).val

\* a list of three axes was decoded to a YAxes
C19_ThreeAccepted == Received("YAxes") /\ Len(wire.list) = 3 /\ dec.ok

\* Graph(..., yAxes=wire) has been called
Constructed == orig = Fn("Graph") /\ dec # None

\* C20: to_y_axes, the converter of Graph.yAxes, returns a YAxes unchanged
\* and issues no warning; turns a list or tuple of exactly two elements into
\* YAxes(left=element 0, right=element 1) and issues one DeprecationWarning;
\* and raises ValueError, so that no Graph is constructed, for an input that
\* is neither and for a list or tuple whose length is not 2.
C20_AxesShim ==
    Constructed =>
        IF IsInstance(wire, "YAxes")
        THEN dec.ok /\ dec.val.cls = "Graph" /\ dec.val.yAxes = wire /\ warned = <<>>
        ELSE IF (IsList(wire) \/ IsTuple(wire)) /\ Len(Elements(wire)) = 2
        THEN LET pair == YAxes([left |-> Elements(wire)[1], right |-> Elements(wire)[2]])
             IN /\ warned = <<"DeprecationWarning">>
                /\ IF pair.ok THEN dec.ok /\ dec.val.cls = "Graph" /\ dec.val.yAxes = pair.val
                   ELSE dec = pair
        ELSE ~dec.ok /\ dec.exc = "ValueError"

\* a Graph was constructed from a list of two different axes, with one warning
C20_Witness ==
    /\ Constructed
    /\ IsList(wire)
    /\ Len(wire.list) = 2
    /\ wire.list[1] # wire.list[2]
    /\ dec.ok
    /\ dec.val.yAxes.left = wire.list[1]
    /\ dec.val.yAxes.right = wire.list[2]
    /\ warned = <<"DeprecationWarning">>

\* a tuple of three axes raised ValueError and no Graph was constructed
C20_RejectedWitness ==
    Constructed /\ IsTuple(wire) /\ Len(wire.tuple) = 3 /\ ~dec.ok /\ dec.exc = "ValueError"

---------------------------------------------------------------------------
(* unknown keys, mutation, transform_dict: claims C21 .. C23 *)

\* the fields of the records of class cls
FieldsOf(cls) == DOMAIN (CHOOSE x \in Samples : x.cls = cls) \ {"cls"}

\* the old keys of the rules of cls.parse_json_data that rename
RenamedKeys(cls) ==
    CASE cls = "Tooltip" -> {"value_type"}
      [] cls = "DashboardLink" -> {"dashUri"}
      [] cls = "Template" -> {"datasource"}
      [] cls \in {"Time", "RangeMap"} -> {"from", "to"}
      [] cls = "TimePicker" -> {"refresh_intervals", "time_options"}
      [] cls = "AlertCondition" -> {"reducer"}
      [] cls = "Alert" -> {"conditions"}
      [] cls = "Dashboard" -> {"__inputs", "timepicker"}
      [] cls = "Graph" -> {"datasource", "linewidth", "pointradius", "xaxis", "yaxes",
                           "x-axis", "y-axis"}
      [] cls \in {"Text", "SingleStat", "Table"} -> {"datasource"}
      [] OTHER -> {}

\* the keys cls.parse_json_data takes out of the mapping by hand, after the rules
ConsumedKeys(cls) ==
    CASE cls = "Template" -> {"current"}
      [] cls = "AlertCondition" -> {"query"}
      [] cls = "DashboardLink" -> {"url"}
      [] OTHER -> {}

\* the mapping wire without the keys that are not in known
Restricted(known) == D([k \in DOMAIN wire.dict \cap known |-> wire.dict[k]])

\* with the keys of known as the known ones: a mapping with another key is
\* not decoded, and where it would be decoded without that key, the failure
\* is the TypeError of the constructor call
FailsOutside(cls, known) ==
    (Received(cls) /\ IsDict(wire) /\ ~(DOMAIN wire.dict \subseteq known)) =>
        /\ ~dec.ok
        /\ Call(Fn(cls \o ".parse_json_data"), Restricted(known)).ok =>
              dec = Raise("TypeError", "unexpected keyword argument")

\* the classes that are decoded from a mapping
MappingTypes == {w.cls : w \in SampleWires}

\* C21: decoding never drops an unknown key. If the mapping holds a key that
\* is neither a field of the record nor the old key of one of its rename
\* rules, parse_json_data fails at the constructor call and returns no record.
C21_UnknownKeyFails ==
    \A cls \in MappingTypes : FailsOutside(cls, FieldsOf(cls) \cup RenamedKeys(cls))

\* C21 with the keys the decoder consumes by hand counted as known: 'current'
\* of Template, 'query' of AlertCondition, 'url' of DashboardLink
C21_UnhandledKeyFails ==
    \A cls \in MappingTypes :
        FailsOutside(cls, FieldsOf(cls) \cup RenamedKeys(cls) \cup ConsumedKeys(cls))

\* the wire form of a Text with the key 'bogus' was rejected by the constructor
C21_Witness ==
    /\ Received("Text")
    /\ "bogus" \in DOMAIN wire.dict
    /\ Call(Fn("Text.parse_json_data"), D(Pop(wire.dict, "bogus"))).ok
    /\ dec = Raise("TypeError", "unexpected keyword argument")

\* the wire form of a Template, which holds 'current', was decoded
C21_CurrentConsumed ==
    Received("Template") /\ "current" \in DOMAIN wire.dict /\ dec.ok

\* C22: records are never mutated after construction. No step of a
\* construction, an encode, a decode, a row balancing or an auto_panel_ids
\* call sets an attribute of a record that had been constructed, and every
\* object on the heap stays as it was.
C22_NeverMutated ==
    [][/\ assigned' = assigned
       /\ Len(heap') >= Len(heap)
       /\ \A a \in 1..Len(heap) : heap'[a] = heap[a]]_vars

\* AlertCondition.parse_json_data has set refId on the Target it had decoded
C22_TargetAssigned ==
    Received("AlertCondition") /\ assigned = <<"Target.refId">>

---------------------------------------------------------------------------
(* transform_dict on its own: claim C23 *)

MaxRules == 2

RuleKeys == {"a", "b", "c"}

RuleValues == {I(1), D("type" :> S("gt"))}

\* the mappings handed to transform_dict
RuleData ==
    UNION {[keys -> RuleValues] : keys \in SUBSET RuleKeys}

\* dicttransform(old_key), dicttransform(old_key, new_key), each with or without a transform
Rules ==
    {dicttransform(old_key, new_key, transform) :
        old_key \in {"a", "b"},
        new_key \in {"", "b", "c"},
        transform \in {Identity, Fn("lambda x: x['type']")}}

\* a caller holds a mapping and a list of rules
ReceiveRules(data, key_transformations) ==
    /\ orig = None
    /\ orig' = [cls |-> "transform_dict", rules |-> key_transformations]
    /\ json' = D(data)
    /\ wire' = D(data)
    /\ UNCHANGED <<heap, pending, rowRefs, rowArgs, dash, result, dec, warned, assigned, rewire>>

\* y = transform_dict(wire, *rules): the work is done on new_data = dict(data)
TransformDict ==
    /\ "rules" \in DOMAIN orig
    /\ dec = None
    /\ dec' = transform_dict(wire, orig.rules)
    /\ UNCHANGED <<heap, pending, rowRefs, rowArgs, dash, result, orig, json, wire, warned, assigned, rewire>>

NextTransform ==
    \/ \E data \in RuleData, key_transformations \in Seqs(Rules, MaxRules) :
          ReceiveRules(data, key_transformations)
    \/ TransformDict

SpecTransform == Init /\ [][NextTransform]_vars

\* one rule applied to mapping m, as the claim words it
ApplyRule(m, rule) ==
    IF rule.old_key \notin DOMAIN m THEN Ok(D(m))
    ELSE LET value == Call(rule.transform, m[rule.old_key])
         IN IF ~value.ok THEN value
            ELSE Ok(D([k \in ((DOMAIN m) \ {rule.old_key}) \cup {rule.new_key} |->
                        IF k = rule.new_key THEN value.val ELSE m[k]]))

\* the rules applied one after another, the last of them last
RECURSIVE ApplyRules(_, _)
ApplyRules(m, rules) ==
    IF rules = <<>> THEN Ok(D(m))
    ELSE LET before == ApplyRules(m, SubSeq(rules, 1, Len(rules) - 1))
         IN IF ~before.ok THEN before
            ELSE ApplyRule(before.val.dict, rules[Len(rules)])

Transformed == "rules" \in DOMAIN orig /\ dec # None

\* the keys some rule reads or writes
NamedKeys(rules) ==
    {rules[i].old_key : i \in 1..Len(rules)} \cup {rules[i].new_key : i \in 1..Len(rules)}

\* C23: transform_dict(data, rules) is the result of applying the rules one
\* after another, in the order given, to a copy of data: a rule whose old key
\* is in the current mapping removes it and sets the new key to f(value), a
\* rule whose old key is absent changes nothing; a key that no rule names is
\* passed through with its value; data is as it was.
C23_TransformDict ==
    Transformed =>
        /\ dec = ApplyRules(json.dict, orig.rules)
        /\ wire = json
        /\ dec.ok =>
              \A k \in (DOMAIN json.dict) \ NamedKeys(orig.rules) :
                  k \in DOMAIN dec.val.dict /\ dec.val.dict[k] = json.dict[k]
        /\ (\A i \in 1..Len(orig.rules) : orig.rules[i].old_key \notin DOMAIN json.dict
                                          /\ orig.rules[i].new_key \notin DOMAIN json.dict)
              => dec = Ok(json)

\* the second rule has consumed what the first rule produced, and "c" passed through
C23_Witness ==
    /\ Transformed
    /\ orig.rules = <<dicttransform("a", "b", Fn("lambda x: x['type']")),
                      dicttransform("b", "", Identity)>>
    /\ json = D("a" :> D("type" :> S("gt")) @@ "c" :> I(1))
    /\ dec = Ok(D("b" :> S("gt") @@ "c" :> I(1)))

\* a rule chain a -> b -> c has moved the value of "a" to "c"
C23_ChainWitness ==
    /\ Transformed
    /\ Len(orig.rules) = 2
    /\ orig.rules[1].old_key = "a" /\ orig.rules[1].new_key = "b"
    /\ orig.rules[2].old_key = "b" /\ orig.rules[2].new_key = "c"
    /\ DOMAIN json.dict = {"a"}
    /\ dec.ok /\ DOMAIN dec.val.dict = {"c"}

\* a transform has failed and transform_dict has returned no mapping
C23_FailureWitness ==
    Transformed /\ ~dec.ok /\ dec.exc = "TypeError"

---------------------------------------------------------------------------
(* balancing what is balanced: claim C24 *)

\* rows.append(Row(panels=rows[-1].panels)): a Row derived from the panels of a Row
RemakeRow ==
    /\ dash = None
    /\ rowRefs # <<>>
    /\ Len(rowRefs) < MaxRows
    /\ LET panels == heap[rowRefs[Len(rowRefs)].ref].panels
           row == Row_init(heap, [panels |-> panels])
       IN /\ row.ok
          /\ heap' = Append(row.mem, row.val)
          /\ rowRefs' = Append(rowRefs, Ref(Len(row.mem) + 1))
          /\ rowArgs' = Append(rowArgs, panels.list)
    /\ UNCHANGED <<pending, dash, result, orig, json, wire, dec, warned, assigned, rewire>>

NextBalance ==
    \/ \E span \in PanelSpans \cup {I(0), I(13)} : NewPanel(None, span)
    \/ MakeRow
    \/ RemakeRow

SpecBalance == Init /\ [][NextBalance]_vars

\* C24: every panel of a constructed Row has a span that is not None;
\* balancing a panel list in which every panel has a span (a balanced list,
\* a list of declared spans, the empty list) returns the same panels with
\* the same spans and allocates nothing; and balancing the panels collected
\* so far does not fail.
C24_BalancedIsFixed ==
    /\ \A r \in 1..Len(rowRefs) :
          LET given == rowArgs[r]
              got == heap[rowRefs[r].ref].panels.list
          IN /\ NoSpan(Objects(heap, got)) = 0
             /\ NoSpan(Objects(heap, given)) = 0 => got = given
             /\ LET again == balance_panels(heap, L(got))
                IN again.ok /\ again.val = L(got) /\ again.mem = heap
    /\ balance_panels(heap, L(pending)).ok

\* the spans (5, None, None) became (5, 4, 4) in a Row, and the Row made of
\* that Row's panels holds the same three panels
C24_Witness ==
    /\ Len(rowRefs) = 2
    /\ [i \in 1..Len(rowArgs[1]) |-> heap[rowArgs[1][i].ref].span] = <<I(5), None, None>>
    /\ rowArgs[2] = heap[rowRefs[1].ref].panels.list
    /\ heap[rowRefs[2].ref].panels.list = rowArgs[2]
    /\ [i \in 1..3 |-> heap[heap[rowRefs[2].ref].panels.list[i].ref].span]
            = <<I(5), I(4), I(4)>>

\* a Row without panels and a Row whose panels all declared a span were constructed
C24_NothingToBalance ==
    /\ Len(rowRefs) = 2
    /\ rowArgs[1] = <<>>
    /\ Len(rowArgs[2]) = 2 /\ NoSpan(Objects(heap, rowArgs[2])) = 0
    /\ heap[rowRefs[2].ref].panels.list = rowArgs[2]

---------------------------------------------------------------------------
(* the total width of a balanced row: claim C25 *)

\* the panels row r was constructed from, and the panels it holds
GivenPanels(r) == Objects(heap, rowArgs[r])
BalancedPanels(r) == Objects(heap, heap[rowRefs[r].ref].panels.list)

\* the span that the panels of row r without a declared span have got
AutoSpans(r) ==
    {IntOf(BalancedPanels(r)[i].span) :
        i \in {n \in 1..Len(rowArgs[r]) : IsNone(GivenPanels(r)[n].span)}}

\* C25: in a Row constructed from k >= 1 panels without a span and declared
\* spans that sum to S, the spans after balancing sum to T with
\* 12 <= T < 12 + k when S <= 12, and T = 12 exactly when k divides 12 - S;
\* when S > 12 the span given to the panels without one is zero or negative.
C25_NeverUnderAllocates ==
    \A r \in 1..Len(rowRefs) :
        LET declared == SumSpans(GivenPanels(r))
            k == NoSpan(GivenPanels(r))
            total == SumSpans(BalancedPanels(r))
        IN k >= 1 =>
            /\ declared <= 12 =>
                  /\ 12 <= total /\ total < 12 + k
                  /\ total = 12 <=> (12 - declared) % k = 0
            /\ declared > 12 => \A w \in AutoSpans(r) : w <= 0

\* (5, None, None) has become (5, 4, 4): 13 in all, one more than the budget
C25_Witness ==
    \E r \in 1..Len(rowRefs) :
        /\ SumSpans(GivenPanels(r)) = 5 /\ NoSpan(GivenPanels(r)) = 2
        /\ SumSpans(BalancedPanels(r)) = 13

\* declared spans of 13 with two panels to fill: both get ceil(-1 / 2) = 0
C25_ZeroWitness ==
    \E r \in 1..Len(rowRefs) :
        /\ SumSpans(GivenPanels(r)) = 13 /\ NoSpan(GivenPanels(r)) = 2
        /\ AutoSpans(r) = {0}

\* declared spans of 14 with one panel to fill: it gets -2
C25_NegativeWitness ==
    \E r \in 1..Len(rowRefs) :
        /\ SumSpans(GivenPanels(r)) = 14 /\ NoSpan(GivenPanels(r)) = 1
        /\ AutoSpans(r) = {0 - 2}

---------------------------------------------------------------------------
(* auto_panel_ids applied to its own result: claim C26 *)

MaxCalls == 2

\* the Dashboard objects there are
Dashboards == {a \in 1..Len(heap) : heap[a].cls = "Dashboard"}

\* dashboard = result; result = dashboard.auto_panel_ids()
AutoPanelIdsAgain ==
    /\ result # None
    /\ Cardinality(Dashboards) < MaxCalls + 1
    /\ Renumbered(auto_panel_ids(heap, result))
    /\ dash' = result
    /\ UNCHANGED <<pending, rowRefs, rowArgs, orig, json, wire, dec, warned, assigned, rewire>>

NextAgain ==
    \/ \E id \in PanelIds : NewPanel(id, None)
    \/ MakeRow
    \/ MakeDashboard
    \/ AutoPanelIds
    \/ AutoPanelIdsAgain

SpecAgain == Init /\ [][NextAgain]_vars

\* the rows of dashboard d with their panels, as values
RowsOf(mem, d) ==
    LET rows == Deref(mem, d).rows.list
    IN [r \in 1..Len(rows) |->
            [Deref(mem, rows[r]) EXCEPT !.panels = L(Objects(mem, Deref(mem, rows[r]).panels.list))]]

\* dashboard d as a value
DashboardOf(mem, d) == [Deref(mem, d) EXCEPT !.rows = L(RowsOf(mem, d))]

\* a step that calls auto_panel_ids, and the dashboard it is called on
CallStep == result' # result
Called == IF result = None THEN dash ELSE result

\* C26: the Dashboard that auto_panel_ids returns has the fields of the one
\* it was called on, the same number of rows with the same fields, and in
\* every row the same number of panels, each equal to the panel at its
\* place but for the id, and equal to it when that id was not None or 0; a
\* panel with the id None or 0 has another id afterwards; and a call on the
\* result of a call returns a Dashboard equal to that result.
C26_OnlyMissingIds ==
    [][CallStep =>
        LET old == DashboardOf(heap, Called)
            new == DashboardOf(heap', result')
        IN /\ [new EXCEPT !.rows = old.rows] = old
           /\ Len(new.rows.list) = Len(old.rows.list)
           /\ \A r \in 1..Len(old.rows.list) :
                LET before == old.rows.list[r]
                    after == new.rows.list[r]
                IN /\ [after EXCEPT !.panels = before.panels] = before
                   /\ Len(after.panels.list) = Len(before.panels.list)
                   /\ \A i \in 1..Len(before.panels.list) :
                        LET p == before.panels.list[i]
                            q == after.panels.list[i]
                        IN /\ [q EXCEPT !.id = p.id] = p
                           /\ Truthy(p.id) => q = p
                           /\ ~Truthy(p.id) => q.id # p.id
           /\ result # None => new = old]_vars

\* the ids (0, 2, None) became (1, 2, 3), and the call on that result has
\* returned another Dashboard with the ids (1, 2, 3)
C26_Witness ==
    /\ Cardinality(Dashboards) = 3
    /\ IdsOf(heap, result) = <<I(1), I(2), I(3)>>
    /\ result # dash
    /\ IdsOf(heap, dash) = <<I(1), I(2), I(3)>>
    /\ \E d \in Dashboards : IdsOf(heap, Ref(d)) = <<I(0), I(2), None>>

---------------------------------------------------------------------------
(* a failure inside the decoder that parse_object has selected: claim C27 *)

\* what a sender puts under 'yaxes' instead of a pair of axes
BrokenAxes == {D(NoArgs), L(<<>>), I(1), None}

\* the wire forms of the Graph samples with such a 'yaxes'
BrokenWires ==
    {D(SetItem(body.dict, "yaxes", axes)) :
        body \in {b \in WireBodies : IsDict(b) /\ "yaxes" \in DOMAIN b.dict},
        axes \in BrokenAxes}

NextVariant ==
    \/ \E decoder \in {Fn("lambda pnl: parse_object(pnl, PANEL_TYPES)"),
                       Fn("lambda input: parse_object(input, INPUT_TYPES)")},
          data \in WireObjects \cup BrokenWires : ReceiveObject(decoder, data)
    \/ ParseObject

SpecVariant == Init /\ [][NextVariant]_vars

\* C27: when the type of the mapping is in the table, a failure of the
\* decoder the table names is the failure of parse_object, with its
\* exception and its argument, and parse_object does not raise the
\* ParseJsonException that calls that type unknown.
C27_FailuresPropagate ==
    (Dispatched /\ TypeInTable(TableOf(orig))) =>
        /\ ~VariantOutcome(TableOf(orig)).ok => dec = VariantOutcome(TableOf(orig))
        /\ ~UnknownType(dec, wire.dict.type)

\* Graph.parse_json_data raised KeyError at data[0] for 'yaxes': {} and
\* parse_object has reported the type 'graph' as unknown
C27_MaskedKeyError ==
    /\ Dispatched
    /\ TableOf(orig) = PANEL_TYPES
    /\ TypeInTable(PANEL_TYPES)
    /\ wire.dict.type = GRAPH_TYPE
    /\ "yaxes" \in DOMAIN wire.dict
    /\ wire.dict.yaxes = D(NoArgs)
    /\ VariantOutcome(PANEL_TYPES) = Raise("KeyError", "index")
    /\ dec = Raise("ParseJsonException", Tx(<<"Unknown panel type ", "graph">>))

\* a 'yaxes' that cannot be indexed at all: the TypeError came through
C27_TypeErrorWitness ==
    /\ Dispatched
    /\ TypeInTable(PANEL_TYPES)
    /\ wire.dict.type = GRAPH_TYPE
    /\ "yaxes" \in DOMAIN wire.dict
    /\ wire.dict.yaxes = I(1)
    /\ dec = Raise("TypeError", "object is not subscriptable")

---------------------------------------------------------------------------
(* encoding what was decoded: claim C28 *)

\* the classes whose wire form is said to survive a decode and an encode
StableTypes == {"Legend", "XAxis", "Row", "DashboardLink", "Template", "TimePicker"}

\* rows without panels
EmptyRows ==
    {Row([height |-> Pixels([num |-> I(n)]).val, title |-> t, showTitle |-> st]).val :
        n \in {0 - 5, 0, 250}, t \in {None, S("row")}, st \in {None} \cup Bools}

StableSamples ==
    {x \in LeafSamples : x.cls \in StableTypes}
    \cup EmptyRows
    \cup {DashboardLink([dashboard |-> S("other"), uri |-> S("db/other"),
                         url |-> S("http://host/"), title |-> t]).val : t \in {None, S("")}}
    \cup {Template([name |-> S("var"), default |-> d, dataSource |-> S("ds"),
                    query |-> S("up"), type |-> t]).val :
            d \in {None, S(""), S("all")}, t \in {S("query"), S("custom")}}
    \cup {XAxis([values |-> L(<<S("total")>>), buckets |-> I(10)]).val}

\* x = cls(...) for one of these classes
ConstructStable ==
    /\ orig = None
    /\ \E x \in StableSamples : orig' = x
    /\ UNCHANGED <<heap, pending, rowRefs, rowArgs, dash, result, json, wire, dec, warned, assigned, rewire>>

\* rewire = json.loads(json.dumps(y.to_json_data(), cls=DashboardEncoder))
Reencode ==
    /\ dec # None
    /\ dec.ok
    /\ rewire = None
    /\ rewire' = JsonEncode(to_json_data(dec.val))
    /\ UNCHANGED <<heap, pending, rowRefs, rowArgs, dash, result, orig, json, wire, dec, warned, assigned>>

NextStable ==
    \/ ConstructStable
    \/ ToJsonData
    \/ Dumps
    \/ Decode
    \/ Reencode

SpecStable == Init /\ [][NextStable]_vars

\* the wire form of an object of class cls was decoded
Decoded(cls) == RoundTripped(cls)

\* C28: for every object x of the six classes (a Row without panels), the
\* wire form of x is decoded to an object, and the wire form of that object
\* equals the wire form of x.
C28_WireStable ==
    \A cls \in StableTypes :
        Decoded(cls) => /\ dec.ok
                        /\ rewire # None => rewire = wire

\* when the decoder returns an object, its wire form is the wire form decoded
C28_StableWhenDecoded ==
    \A cls \in StableTypes :
        Decoded(cls) /\ rewire # None => rewire = wire

\* Row(height=Pixels(-5)) was encoded with the height '-5px', which
\* Row.parse_json_data has rejected
C28_RowRejected ==
    /\ Decoded("Row")
    /\ orig.height.num = I(0 - 5)
    /\ wire.dict.height = Tx(<<"-", "5", "p", "x">>)
    /\ ParseError(dec)

\* a Legend with values unset was decoded to a Legend that differs from it
\* and has the same wire form
C28_Witness ==
    /\ Decoded("Legend")
    /\ dec.ok /\ dec.val # orig
    /\ rewire = wire

\* but for a Row whose height is negative, the wire form is decoded and stable
C28_StableButNegativeHeight ==
    \A cls \in StableTypes :
        (Decoded(cls) /\ (cls = "Row" => IntOf(orig.height.num) >= 0)) =>
            /\ dec.ok
            /\ rewire # None => rewire = wire

\* a Row without a title was decoded to a Row titled 'New row' with the same wire form
C28_RowWitness ==
    /\ Decoded("Row")
    /\ orig.title = None
    /\ dec.ok /\ dec.val.title = S("New row")
    /\ rewire = wire

====
